---- MODULE Spec2Model ----
(***************************************************************************)
(* Verification model of the ext2/ext3 driver (ext2fs.c) and of the NTFS   *)
(* directory layer (ntfs_dent.c) of The Sleuth Kit.                        *)
(*                                                                         *)
(* Sizes are scaled down: an ext image has NumGroups block groups of       *)
(* BlocksPerGroup blocks and InodesPerGroup inodes.  Every group is laid   *)
(* out as  superblock copy, group-descriptor table, block bitmap, inode    *)
(* bitmap, inode table (one block), data blocks.                           *)
(***************************************************************************)
EXTENDS Integers, Sequences, FiniteSets, TLC

VARIABLES
    img,      \* the ext image under analysis (never written)
    ext2fs,   \* EXT2FS_INFO: the four single-slot caches and list_inum_named
    last,     \* the most recent call on the ext handle and what it returned
    firstLook,\* one earlier successful inode_lookup: its inode and its result
    nimg,     \* the NTFS image under analysis (never written)
    ntfs,     \* NTFS_INFO: the orphan map
    dlast,    \* the most recent ntfs_dir_open_meta and what it produced
    frec,     \* an index record handed to ntfs_fix_idxrec, as read from disk
    fres      \* what ntfs_fix_idxrec returned and the memory it left

extVars == <<img, ext2fs, last, firstLook>>
dirVars == <<nimg, ntfs, dlast>>
fixVars == <<frec, fres>>
vars == <<extVars, dirVars, fixVars>>

(***************************************************************************)
(* Geometry of the ext file system (superblock values).                    *)
(***************************************************************************)
NumGroups == 2
InodesPerGroup == 2
DataBlocksPerGroup == 1

\* sizeof(ext2fs_inode), the smallest inode_size the driver accepts
InodeSize == 128
\* EXT2FS_MIN_BLOCK_SIZE << s_log_block_size, with s_log_block_size = 0
BlockSize == 1024

\* s_blocks_per_group: superblock, descriptor table, two bitmaps, inode table, data
BlocksPerGroup == 5 + DataBlocksPerGroup
first_data_block == 1
first_inum == 1
first_block == 0
last_block == first_data_block + NumGroups * BlocksPerGroup - 1
\* s_inodes_count + 1: the last number is the virtual orphan directory
last_inum == NumGroups * InodesPerGroup + 1
groups_count == NumGroups

Groups == 0 .. (groups_count - 1)
Blocks == first_block .. last_block
RealInodes == first_inum .. (last_inum - 1)

\* 0xffffffff, the tag of a slot that was never loaded
NoTag == -1

ext2_cgbase_lcl(g) == g * BlocksPerGroup + first_data_block
ext2_dtog_lcl(d) == (d - first_data_block) \div BlocksPerGroup

\* the block holding the group-descriptor table (groups_offset)
groups_offset == first_data_block + 1

(***************************************************************************)
(* The image.  A descriptor is the triple of block numbers bg_block_bitmap *)
(* (bb), bg_inode_bitmap (ib) and bg_inode_table (it).                     *)
(***************************************************************************)
ValidGd(g) ==
    [bb |-> ext2_cgbase_lcl(g) + 2,
     ib |-> ext2_cgbase_lcl(g) + 3,
     it |-> ext2_cgbase_lcl(g) + 4]

\* a descriptor with one field pointing past the end of the file system
FaultyGd(g, f) ==
    [ValidGd(g) EXCEPT ![f] = last_block + 1]

NoFault == [grp |-> NoTag, fld |-> "bb"]

Faults == {[grp |-> g, fld |-> f] : g \in Groups, f \in {"bb", "ib", "it"}}

\* the images differ in the allocation class of their inodes and blocks;
\* consecutive inodes cycle through the eight (allocated, used, named) classes
Classes == 0 .. 7

\* the classes tried on a damaged image
FaultClasses == {0, 5}

\* the blocks of the image that cannot be read: one block of the metadata, or
\* everything from a bitmap or the inode table of the last group on (a cut file)
GroupMeta(g) == {ValidGd(g)[f] : f \in {"bb", "ib", "it"}}

Unreadable ==
    {{groups_offset}}
    \cup {{b} : b \in UNION {GroupMeta(g) : g \in Groups}}
    \cup {b .. last_block : b \in GroupMeta(groups_count - 1)}

Image(flt, c, u) ==
    [gd |-> [g \in Groups |-> IF flt.grp = g THEN FaultyGd(g, flt.fld) ELSE ValidGd(g)],
     cls |-> c,
     bad |-> u]

ExtImages ==
    {Image(NoFault, c, {}) : c \in Classes}
    \cup {Image(flt, c, {}) : flt \in Faults, c \in FaultClasses}
    \cup {Image(NoFault, c, u) : c \in FaultClasses, u \in Unreadable}

InodeClass(im, i) == (i + im.cls) % 8
InodeAllocated(im, i) == InodeClass(im, i) % 2 = 1
InodeCtime(im, i) == (InodeClass(im, i) \div 2) % 2
InodeNamed(im, i) == (InodeClass(im, i) \div 4) % 2 = 1
BlockAllocated(im, b) == ((b + im.cls) \div 2) % 2 = 1

\* an image on which every load succeeds
CleanImage(im) ==
    /\ \A g \in Groups : im.gd[g] = ValidGd(g)
    /\ im.bad = {}

(***************************************************************************)
(* tsk_fs_read: what the image holds at the places the driver reads.       *)
(***************************************************************************)
\* a read of block b returns all the bytes asked for
ReadOk(im, b) == b >= first_block /\ b <= last_block /\ b \notin im.bad

\* block b read as a bitmap: the set of the bit numbers that are set
BitmapAt(im, b) ==
    IF \E g \in Groups : b = ValidGd(g).bb
    THEN LET g == ext2_dtog_lcl(b)
         IN  {k \in 0 .. (BlocksPerGroup - 1) :
                 BlockAllocated(im, ext2_cgbase_lcl(g) + k)}
    ELSE IF \E g \in Groups : b = ValidGd(g).ib
    THEN LET g == ext2_dtog_lcl(b)
         IN  {k \in 0 .. (InodesPerGroup - 1) :
                 InodeAllocated(im, g * InodesPerGroup + first_inum + k)}
    ELSE {}

\* the raw inode stored in block b of an inode table at index rel; "data"
\* stands for every field but i_ctime (mode, size, ids, times, i_block)
InodeAt(im, b, rel) ==
    IF (\E g \in Groups : b = ValidGd(g).it) /\ rel \in 0 .. (InodesPerGroup - 1)
    THEN LET n == ext2_dtog_lcl(b) * InodesPerGroup + first_inum + rel
         IN  [ctime |-> InodeCtime(im, n), data |-> n]
    ELSE [ctime |-> 0, data |-> 0]

(***************************************************************************)
(* The cache slots.  A NULL buffer is a slot that was never allocated;     *)
(* tsk_malloc returns zeroed memory.                                       *)
(***************************************************************************)
NullGd == [bb |-> -1, ib |-> -1, it |-> -1]
ZeroGd == [bb |-> 0, ib |-> 0, it |-> 0]
NullMap == {-1}
ZeroMap == {}
NullIno == [ctime |-> -1, data |-> -1]
ZeroIno == [ctime |-> 0, data |-> 0]

ext2fs_open ==
    [grp_buf |-> NullGd, grp_num |-> NoTag,
     bmap_buf |-> NullMap, bmap_grp_num |-> NoTag,
     imap_buf |-> NullMap, imap_grp_num |-> NoTag,
     dino_buf |-> NullIno, dino_inum |-> NoTag,
     list_inum_named |-> {-1}]

isset(map, i) == i \in map

\* the sanity check of a freshly read descriptor
GdInRange(gd) ==
    /\ gd.bb <= last_block
    /\ gd.ib <= last_block
    /\ gd.it <= last_block

\* ext2fs_group_load: returns [ret, e], ret = 1 on error
ext2fs_group_load(e, im, grp_num) ==
    IF grp_num < 0 \/ grp_num >= groups_count
    THEN [ret |-> 1, e |-> e]
    ELSE IF e.grp_buf # NullGd /\ e.grp_num = grp_num
    THEN [ret |-> 0, e |-> e]
    ELSE LET buf0 == IF e.grp_buf = NullGd THEN ZeroGd ELSE e.grp_buf
         IN  IF ~ReadOk(im, groups_offset)
             THEN [ret |-> 1, e |-> [e EXCEPT !.grp_buf = buf0]]
             ELSE LET e1 == [e EXCEPT !.grp_buf = im.gd[grp_num]]
                  IN  IF ~GdInRange(e1.grp_buf)
                      THEN [ret |-> 1, e |-> e1]
                      ELSE [ret |-> 0, e |-> [e1 EXCEPT !.grp_num = grp_num]]

\* the descriptor lookup that opens bmap_load, imap_load and dinode_load
GroupFor(e, im, grp_num) ==
    IF e.grp_buf = NullGd \/ e.grp_num # grp_num
    THEN ext2fs_group_load(e, im, grp_num)
    ELSE [ret |-> 0, e |-> e]

\* ext2fs_bmap_load: a short read of the bitmap is reported but not returned
ext2fs_bmap_load(e, im, grp_num) ==
    LET r == GroupFor(e, im, grp_num)
        e1 == r.e
        buf0 == IF e1.bmap_buf = NullMap THEN ZeroMap ELSE e1.bmap_buf
        e2 == [e1 EXCEPT !.bmap_buf = buf0]
        bb == e1.grp_buf.bb
    IN  IF r.ret = 1 THEN r
        ELSE IF e1.bmap_buf # NullMap /\ e1.bmap_grp_num = grp_num
        THEN [ret |-> 0, e |-> e1]
        ELSE IF bb > last_block
        THEN [ret |-> 1, e |-> e2]
        ELSE [ret |-> 0,
              e |-> [e2 EXCEPT !.bmap_buf = IF ReadOk(im, bb) THEN BitmapAt(im, bb)
                                            ELSE buf0,
                               !.bmap_grp_num = grp_num]]

\* ext2fs_imap_load: neither the range error nor a short read returns
ext2fs_imap_load(e, im, grp_num) ==
    LET r == GroupFor(e, im, grp_num)
        e1 == r.e
        buf0 == IF e1.imap_buf = NullMap THEN ZeroMap ELSE e1.imap_buf
        e2 == [e1 EXCEPT !.imap_buf = buf0]
        ib == e1.grp_buf.ib
    IN  IF r.ret = 1 THEN r
        ELSE IF e1.imap_buf # NullMap /\ e1.imap_grp_num = grp_num
        THEN [ret |-> 0, e |-> e1]
        ELSE [ret |-> 0,
              e |-> [e2 EXCEPT !.imap_buf = IF ReadOk(im, ib) THEN BitmapAt(im, ib)
                                            ELSE buf0,
                               !.imap_grp_num = grp_num]]

\* ext2fs_dinode_load
ext2fs_dinode_load(e, im, inum) ==
    IF inum < first_inum \/ inum > last_inum - 1
    THEN [ret |-> 1, e |-> e]
    ELSE IF e.dino_buf # NullIno /\ e.dino_inum = inum
    THEN [ret |-> 0, e |-> e]
    ELSE LET buf0 == IF e.dino_buf = NullIno THEN ZeroIno ELSE e.dino_buf
             e0 == [e EXCEPT !.dino_buf = buf0]
             grp_num == (inum - first_inum) \div InodesPerGroup
             r == GroupFor(e0, im, grp_num)
             e1 == r.e
             rel_inum == (inum - 1) - InodesPerGroup * grp_num
             blk == e1.grp_buf.it + ((rel_inum * InodeSize) \div BlockSize)
         IN  IF r.ret = 1 THEN r
             ELSE IF ~ReadOk(im, blk)
             THEN [ret |-> 1, e |-> e1]
             ELSE [ret |-> 0,
                   e |-> [e1 EXCEPT !.dino_buf = InodeAt(im, e1.grp_buf.it, rel_inum),
                                    !.dino_inum = inum]]

\* the generic metadata of an inode that was never filled in
NoMeta == [addr |-> 0, data |-> 0, ctime |-> 0, flags |-> {}]

\* ext2fs_dinode_copy: returns [ret, e, meta]
ext2fs_dinode_copy(e, im) ==
    IF e.dino_buf = NullIno
    THEN [ret |-> 1, e |-> e, meta |-> NoMeta]
    ELSE LET grp_num == (e.dino_inum - first_inum) \div InodesPerGroup
             r == IF e.imap_grp_num # grp_num
                  THEN ext2fs_imap_load(e, im, grp_num)
                  ELSE [ret |-> 0, e |-> e]
             e1 == r.e
             ibase == grp_num * InodesPerGroup + first_inum
         IN  IF r.ret = 1
             THEN [ret |-> 1, e |-> e1, meta |-> NoMeta]
             ELSE [ret |-> 0, e |-> e1,
                   meta |-> [addr |-> e1.dino_inum,
                             data |-> e1.dino_buf.data,
                             ctime |-> e1.dino_buf.ctime,
                             flags |->
                                 (IF isset(e1.imap_buf, e1.dino_inum - ibase)
                                  THEN {"ALLOC"} ELSE {"UNALLOC"})
                                 \cup (IF e1.dino_buf.ctime # 0
                                       THEN {"USED"} ELSE {"UNUSED"})]]

\* tsk_fs_dir_make_orphan_dir_meta: the metadata of the virtual orphan directory
OrphanDirMeta == [addr |-> last_inum, data |-> 0, ctime |-> 0, flags |-> {"ALLOC", "USED"}]

\* ext2fs_inode_lookup: returns [ret, e, meta]
ext2fs_inode_lookup(e, im, inum) ==
    IF inum = last_inum
    THEN [ret |-> 0, e |-> e, meta |-> OrphanDirMeta]
    ELSE LET l == ext2fs_dinode_load(e, im, inum)
         IN  IF l.ret = 1
             THEN [ret |-> 1, e |-> l.e, meta |-> NoMeta]
             ELSE ext2fs_dinode_copy(l.e, im)

\* a canonical form in which ORPHAN does not force USED
WalkFlags_orphan_any_ctime(flags) ==
    IF "ORPHAN" \in flags
    THEN (flags \cup {"UNALLOC", "USED", "UNUSED"}) \ {"ALLOC"}
    ELSE flags \cup {"ALLOC", "UNALLOC", "USED", "UNUSED"}

\* a canonical form in which ORPHAN does not clear ALLOC
WalkFlags_orphan_keeps_alloc(flags) ==
    IF "ORPHAN" \in flags
    THEN (flags \cup {"UNALLOC", "USED"}) \ {"UNUSED"}
    ELSE flags \cup {"ALLOC", "UNALLOC", "USED", "UNUSED"}

\* the canonical form of the flags of an inode walk
WalkFlags(flags) ==
    IF "ORPHAN" \in flags
    THEN (flags \cup {"UNALLOC", "USED"}) \ {"ALLOC", "UNUSED"}
    ELSE LET f1 == IF flags \cap {"ALLOC", "UNALLOC"} = {}
                   THEN flags \cup {"ALLOC", "UNALLOC"} ELSE flags
         IN  IF f1 \cap {"USED", "UNUSED"} = {}
             THEN f1 \cup {"USED", "UNUSED"} ELSE f1

\* tsk_fs_dir_load_inum_named: the inodes that a surviving name points to
LoadInumNamed(im) == {i \in RealInodes : InodeNamed(im, i)}

\* what the callback of a walk answers when it is handed inode inum
CallbackRet(cb, inum) == IF cb.at = inum THEN cb.ret ELSE "CONT"

AlwaysCont == [at |-> 0, ret |-> "CONT"]

Callbacks == {AlwaysCont}
             \cup {[at |-> i, ret |-> r] : i \in first_inum .. last_inum,
                                          r \in {"STOP", "ERROR"}}

\* a loop that stops one inode short
WalkLoopCond_exclusive(inum, end_inum_tmp) == inum < end_inum_tmp

\* the test that keeps the loop of ext2fs_inode_walk going

WalkLoopCond(inum, end_inum_tmp) == inum <= end_inum_tmp

\* a test that admits an inode as soon as one of its flags is asked for
FlagsAdmit_any(flags, myflags) == myflags \cap flags # {}

\* the test that admits an inode of class myflags to a walk for flags
FlagsAdmit(flags, myflags) == myflags \subseteq flags

\* the loop of ext2fs_inode_walk from inum on; seq are the inodes delivered so
\* far; returns [ret, e, seq, closed], closed telling whether fs_file was closed
RECURSIVE WalkLoop(_, _, _, _, _, _, _, _, _)
WalkLoop(e, im, inum, end_inum, start_inum, flags, ibase, cb, seq) ==
    LET end_inum_tmp == IF end_inum = last_inum THEN end_inum - 1 ELSE end_inum
        grp_num == (inum - 1) \div InodesPerGroup
        needmap == e.imap_buf = NullMap \/ e.imap_grp_num # grp_num
        m == IF needmap THEN ext2fs_imap_load(e, im, grp_num)
             ELSE [ret |-> 0, e |-> e]
        ibase1 == IF needmap \/ inum = start_inum
                  THEN grp_num * InodesPerGroup + 1 ELSE ibase
        alloc == IF isset(m.e.imap_buf, inum - ibase1) THEN {"ALLOC"} ELSE {"UNALLOC"}
        l == ext2fs_dinode_load(m.e, im, inum)
        myflags == alloc \cup (IF l.e.dino_buf.ctime # 0 THEN {"USED"} ELSE {"UNUSED"})
        c == ext2fs_dinode_copy(l.e, im)
        retval == CallbackRet(cb, inum)
    IN  IF ~WalkLoopCond(inum, end_inum_tmp)
        THEN \* the virtual orphan directory, then the cleanup
             IF end_inum = last_inum /\ "ALLOC" \in flags /\ "USED" \in flags
             THEN [ret |-> IF CallbackRet(cb, last_inum) = "ERROR" THEN 1 ELSE 0,
                   e |-> e, seq |-> Append(seq, last_inum), closed |-> TRUE]
             ELSE [ret |-> 0, e |-> e, seq |-> seq, closed |-> TRUE]
        ELSE IF m.ret = 1
        THEN [ret |-> 1, e |-> m.e, seq |-> seq, closed |-> FALSE]
        ELSE IF ~FlagsAdmit(flags, alloc)
        THEN WalkLoop(m.e, im, inum + 1, end_inum, start_inum, flags, ibase1, cb, seq)
        ELSE IF l.ret = 1
        THEN [ret |-> 1, e |-> l.e, seq |-> seq, closed |-> TRUE]
        ELSE IF ~FlagsAdmit(flags, myflags)
        THEN WalkLoop(l.e, im, inum + 1, end_inum, start_inum, flags, ibase1, cb, seq)
        ELSE IF "UNALLOC" \in myflags /\ "ORPHAN" \in flags
                /\ inum \in l.e.list_inum_named
        THEN WalkLoop(l.e, im, inum + 1, end_inum, start_inum, flags, ibase1, cb, seq)
        ELSE IF c.ret = 1
        THEN [ret |-> 1, e |-> c.e, seq |-> seq, closed |-> FALSE]
        ELSE IF retval = "STOP"
        THEN [ret |-> 0, e |-> c.e, seq |-> Append(seq, inum), closed |-> TRUE]
        ELSE IF retval = "ERROR"
        THEN [ret |-> 1, e |-> c.e, seq |-> Append(seq, inum), closed |-> TRUE]
        ELSE WalkLoop(c.e, im, inum + 1, end_inum, start_inum, flags, ibase1, cb,
                      Append(seq, inum))

\* ext2fs_inode_walk: returns [ret, e, seq, closed]
ext2fs_inode_walk(e, im, start_inum, end_inum, a_flags, cb) ==
    LET flags == WalkFlags(a_flags)
        e1 == IF "ORPHAN" \in flags /\ e.list_inum_named = {-1}
              THEN [e EXCEPT !.list_inum_named = LoadInumNamed(im)] ELSE e
    IN  IF start_inum < first_inum \/ start_inum > last_inum
        THEN [ret |-> 1, e |-> e, seq |-> <<>>, closed |-> TRUE]
        ELSE IF end_inum < first_inum \/ end_inum > last_inum \/ end_inum < start_inum
        THEN [ret |-> 1, e |-> e, seq |-> <<>>, closed |-> TRUE]
        ELSE WalkLoop(e1, im, start_inum, end_inum, start_inum, flags, 0, cb, <<>>)

\* INODE_TABLE_SIZE: the blocks of the inode table of one group
INODE_TABLE_SIZE == ((InodesPerGroup * InodeSize - 1) \div BlockSize) + 1

\* a classification that leaves out the reserved span in front of the bitmaps
BlockKind_no_reserved_span(gd, a_addr, dbase) ==
    IF \/ a_addr = gd.bb
       \/ a_addr = gd.ib
       \/ (a_addr >= gd.it /\ a_addr < gd.it + INODE_TABLE_SIZE)
    THEN {"META"} ELSE {"CONT"}

\* the META / CONT half of ext2fs_block_getflags, from the descriptor slot gd
BlockKind(gd, a_addr, dbase) ==
    LET dmin == gd.it + INODE_TABLE_SIZE
    IN  IF \/ (a_addr >= dbase /\ a_addr < gd.bb)
           \/ a_addr = gd.bb
           \/ a_addr = gd.ib
           \/ (a_addr >= gd.it /\ a_addr < dmin)
        THEN {"META"} ELSE {"CONT"}

\* ext2fs_block_getflags: returns [flags, e]; the empty set is the value 0
ext2fs_block_getflags(e, im, a_addr) ==
    IF a_addr = 0
    THEN [flags |-> {"CONT", "ALLOC"}, e |-> e]
    ELSE IF a_addr < first_data_block
    THEN [flags |-> {"META", "ALLOC"}, e |-> e]
    ELSE LET grp_num == ext2_dtog_lcl(a_addr)
             r == IF e.bmap_buf = NullMap \/ e.bmap_grp_num # grp_num
                  THEN ext2fs_bmap_load(e, im, grp_num)
                  ELSE [ret |-> 0, e |-> e]
             e1 == r.e
             dbase == ext2_cgbase_lcl(grp_num)
         IN  IF r.ret = 1
             THEN [flags |-> {}, e |-> e1]
             ELSE [flags |-> (IF isset(e1.bmap_buf, a_addr - dbase)
                              THEN {"ALLOC"} ELSE {"UNALLOC"})
                             \cup BlockKind(e1.grp_buf, a_addr, dbase),
                   e |-> e1]

(***************************************************************************)
(* The calls on an ext handle.                                             *)
(***************************************************************************)
NoCall ==
    [op |-> "open", a |-> 0, b |-> 0, flags |-> {}, cb |-> AlwaysCont, ret |-> 0,
     seq |-> <<>>, meta |-> NoMeta, closed |-> TRUE]

NoLook == [inum |-> 0, meta |-> NoMeta]

InitExt(images) ==
    /\ img \in images
    /\ ext2fs = ext2fs_open
    /\ last = NoCall
    /\ firstLook = NoLook

\* the caller is between two calls
Idle == {"open", "returned"}

\* the caller has taken the result of its last call and may call again
Return ==
    /\ last.op \notin Idle
    /\ last' = [NoCall EXCEPT !.op = "returned"]
    /\ UNCHANGED <<img, ext2fs, firstLook>>

\* inode_lookup(inum); mark chooses whether this result is the one remembered
InodeLookup(inum, mark) ==
    LET r == ext2fs_inode_lookup(ext2fs, img, inum)
    IN  /\ last.op \in Idle
        /\ ext2fs' = r.e
        /\ last' = [NoCall EXCEPT !.op = "inode_lookup", !.a = inum,
                                  !.ret = r.ret, !.meta = r.meta]
        /\ firstLook' = IF mark /\ r.ret = 0 /\ firstLook = NoLook
                        THEN [inum |-> inum, meta |-> r.meta]
                        ELSE firstLook
        /\ UNCHANGED img

\* block_get_flags(addr)
BlockGetFlags(addr) ==
    LET r == ext2fs_block_getflags(ext2fs, img, addr)
    IN  /\ last.op \in Idle
        /\ ext2fs' = r.e
        /\ last' = [NoCall EXCEPT !.op = "block_getflags", !.a = addr,
                                  !.flags = r.flags]
        /\ UNCHANGED <<img, firstLook>>

\* inode_walk(start, end, flags, cb)
InodeWalk(start, end, flags, cb) ==
    LET r == ext2fs_inode_walk(ext2fs, img, start, end, flags, cb)
    IN  /\ last.op \in Idle
        /\ ext2fs' = r.e
        /\ last' = [NoCall EXCEPT !.op = "inode_walk", !.a = start, !.b = end,
                                  !.flags = flags, !.cb = cb,
                                  !.ret = r.ret, !.seq = r.seq,
                                  !.closed = r.closed]
        /\ UNCHANGED <<img, firstLook>>

AllFour == {"ALLOC", "UNALLOC", "USED", "UNUSED"}

\* the ranges walked: those that start at first_inum, those that end at the
\* last inode of the inode tables, and the orphan directory alone
WalkRanges ==
    {<<s, e>> \in (first_inum .. last_inum) \X (first_inum .. last_inum) :
        s <= e /\ (s = first_inum \/ e = last_inum - 1 \/ s = last_inum)}

NextExt ==
    \/ \E i \in first_inum .. last_inum : InodeLookup(i, FALSE)
    \/ \E b \in Blocks : BlockGetFlags(b)
    \/ \E w \in WalkRanges, f \in {AllFour, {"ORPHAN"}} :
           InodeWalk(w[1], w[2], f, AlwaysCont)
    \/ Return


\* the same calls, with one successful lookup remembered
NextLook ==
    \/ \E i \in first_inum .. last_inum, mark \in BOOLEAN : InodeLookup(i, mark)
    \/ \E b \in Blocks : BlockGetFlags(b)
    \/ InodeWalk(first_inum, last_inum, AllFour, AlwaysCont)
    \/ Return


\* the flags asked of an inode walk
WalkFlagSets ==
    {{}, {"ALLOC"}, {"UNALLOC"}, {"USED"}, {"ALLOC", "UNUSED"},
     {"ORPHAN", "ALLOC", "USED"}}

\* the callbacks of an inode walk: one that goes on, one that stops at the
\* first inode and one that fails at the orphan directory
WalkCallbacks ==
    {AlwaysCont, [at |-> first_inum, ret |-> "STOP"], [at |-> last_inum, ret |-> "ERROR"]}

\* inode walks of every kind, one after the other on one handle
NextWalk ==
    \/ \E w \in WalkRanges, f \in WalkFlagSets, cb \in WalkCallbacks :
           InodeWalk(w[1], w[2], f, cb)
    \/ Return

(***************************************************************************)
(* The block iterator of an ext handle.                                    *)
(***************************************************************************)
\* the canonical form of the flags of a block walk
BlockWalkFlags(a_flags) ==
    LET f1 == IF a_flags \cap {"ALLOC", "UNALLOC"} = {}
              THEN a_flags \cup {"ALLOC", "UNALLOC"} ELSE a_flags
    IN  IF f1 \cap {"META", "CONT"} = {}
        THEN f1 \cup {"CONT", "META"} ELSE f1

\* tsk_fs_block_get: the block is read from the image into fs_block
tsk_fs_block_get(im, addr) == ReadOk(im, addr)

\* the loop of ext2fs_block_walk from addr on; seq are the blocks delivered so
\* far; returns [ret, e, seq, closed], closed telling whether fs_block was freed
RECURSIVE BlockWalkLoop(_, _, _, _, _, _, _)
BlockWalkLoop(e, im, addr, a_end_blk, a_flags, cb, seq) ==
    LET g == ext2fs_block_getflags(e, im, addr)
        myflags == g.flags
        retval == CallbackRet(cb, addr)
    IN  IF ~(addr <= a_end_blk)
        THEN [ret |-> 0, e |-> e, seq |-> seq, closed |-> TRUE]
        ELSE IF \E f \in {"META", "CONT", "ALLOC", "UNALLOC"} :
                    f \in myflags /\ f \notin a_flags
        THEN BlockWalkLoop(g.e, im, addr + 1, a_end_blk, a_flags, cb, seq)
        ELSE IF ~tsk_fs_block_get(im, addr)
        THEN [ret |-> 1, e |-> g.e, seq |-> seq, closed |-> TRUE]
        ELSE IF retval = "STOP"
        THEN [ret |-> 0, e |-> g.e, seq |-> Append(seq, addr), closed |-> TRUE]
        ELSE IF retval = "ERROR"
        THEN [ret |-> 1, e |-> g.e, seq |-> Append(seq, addr), closed |-> TRUE]
        ELSE BlockWalkLoop(g.e, im, addr + 1, a_end_blk, a_flags, cb,
                           Append(seq, addr))

\* ext2fs_block_walk: returns [ret, e, seq, closed]
ext2fs_block_walk(e, im, a_start_blk, a_end_blk, a_flags, cb) ==
    IF a_start_blk < first_block \/ a_start_blk > last_block
    THEN [ret |-> 1, e |-> e, seq |-> <<>>, closed |-> TRUE]
    ELSE IF a_end_blk < first_block \/ a_end_blk > last_block
            \/ a_end_blk < a_start_blk
    THEN [ret |-> 1, e |-> e, seq |-> <<>>, closed |-> TRUE]
    ELSE BlockWalkLoop(e, im, a_start_blk, a_end_blk, BlockWalkFlags(a_flags),
                       cb, <<>>)

\* block_walk(start, end, flags, cb)
BlockWalk(start, end, flags, cb) ==
    LET r == ext2fs_block_walk(ext2fs, img, start, end, flags, cb)
    IN  /\ last.op \in Idle
        /\ ext2fs' = r.e
        /\ last' = [NoCall EXCEPT !.op = "block_walk", !.a = start, !.b = end,
                                  !.flags = flags, !.cb = cb,
                                  !.ret = r.ret, !.seq = r.seq,
                                  !.closed = r.closed]
        /\ UNCHANGED <<img, firstLook>>

\* the ranges of blocks walked: from the first block on, or up to the last
BlockRanges ==
    {<<s, e>> \in Blocks \X Blocks : s <= e /\ (s = first_block \/ e = last_block)}

\* the callbacks of a block walk: one that goes on, and one that stops or
\* fails at the first data block of the first group
BlockCallbacks ==
    {AlwaysCont} \cup {[at |-> first_data_block, ret |-> r] : r \in {"STOP", "ERROR"}}

NextBlk ==
    \/ \E i \in RealInodes : InodeLookup(i, FALSE)
    \/ \E w \in BlockRanges, f \in {{}, {"ALLOC"}, {"UNALLOC", "CONT"}},
          cb \in BlockCallbacks :
           BlockWalk(w[1], w[2], f, cb)
    \/ Return

(***************************************************************************)
(* The loaders of the four cache slots, as their call sites run them, with *)
(* the image reads (tsk_fs_read) each of them issues.                      *)
(***************************************************************************)
\* an image reader that reads the descriptor table again on every group load
ImageReads_rereading(op, e, im, x) ==
    IF op = "group_load" THEN <<groups_offset>> ELSE <<>>

\* the blocks that loader op, run for tag x on the handle e, reads from the
\* image, in the order of the reads
ImageReads(op, e, im, x) ==
    LET grp(e0, g) ==
            IF g < 0 \/ g >= groups_count THEN <<>>
            ELSE IF e0.grp_buf # NullGd /\ e0.grp_num = g THEN <<>>
            ELSE <<groups_offset>>
        grpfor(e0, g) ==
            IF e0.grp_buf = NullGd \/ e0.grp_num # g THEN grp(e0, g) ELSE <<>>
        r == GroupFor(e, im, x)
        inogrp == (x - first_inum) \div InodesPerGroup
        ri == GroupFor(e, im, inogrp)
        rel_inum == (x - 1) - InodesPerGroup * inogrp
    IN  CASE op = "group_load" -> grp(e, x)
          [] op = "bmap_load" ->
                grpfor(e, x)
                \o (IF \/ r.ret = 1
                       \/ (r.e.bmap_buf # NullMap /\ r.e.bmap_grp_num = x)
                       \/ r.e.grp_buf.bb > last_block
                    THEN <<>> ELSE <<r.e.grp_buf.bb>>)
          [] op = "imap_load" ->
                grpfor(e, x)
                \o (IF \/ r.ret = 1
                       \/ (r.e.imap_buf # NullMap /\ r.e.imap_grp_num = x)
                    THEN <<>> ELSE <<r.e.grp_buf.ib>>)
          [] op = "dinode_load" ->
                IF x < first_inum \/ x > last_inum - 1 THEN <<>>
                ELSE IF e.dino_buf # NullIno /\ e.dino_inum = x THEN <<>>
                ELSE grpfor(e, inogrp)
                     \o (IF ri.ret = 1 THEN <<>>
                         ELSE <<ri.e.grp_buf.it + ((rel_inum * InodeSize) \div BlockSize)>>)

\* ext2fs_group_load(ext2fs, i), as ext2fs_fsstat calls it for every group
GroupLoad(g) ==
    LET r == ext2fs_group_load(ext2fs, img, g)
    IN  /\ last.op \in Idle
        /\ ext2fs' = r.e
        /\ last' = [NoCall EXCEPT !.op = "group_load", !.a = g, !.ret = r.ret,
                                  !.seq = ImageReads("group_load", ext2fs, img, g)]
        /\ UNCHANGED <<img, firstLook>>

\* the block bitmap of group g is made sure of, as in ext2fs_block_getflags
BmapLoad(g) ==
    LET needed == ext2fs.bmap_buf = NullMap \/ ext2fs.bmap_grp_num # g
        r == IF needed THEN ext2fs_bmap_load(ext2fs, img, g)
             ELSE [ret |-> 0, e |-> ext2fs]
    IN  /\ last.op \in Idle
        /\ ext2fs' = r.e
        /\ last' = [NoCall EXCEPT !.op = "bmap_load", !.a = g, !.ret = r.ret,
                                  !.seq = IF needed
                                          THEN ImageReads("bmap_load", ext2fs, img, g)
                                          ELSE <<>>]
        /\ UNCHANGED <<img, firstLook>>

\* the inode bitmap of group g is made sure of, as in ext2fs_inode_walk
ImapLoad(g) ==
    LET needed == ext2fs.imap_buf = NullMap \/ ext2fs.imap_grp_num # g
        r == IF needed THEN ext2fs_imap_load(ext2fs, img, g)
             ELSE [ret |-> 0, e |-> ext2fs]
    IN  /\ last.op \in Idle
        /\ ext2fs' = r.e
        /\ last' = [NoCall EXCEPT !.op = "imap_load", !.a = g, !.ret = r.ret,
                                  !.seq = IF needed
                                          THEN ImageReads("imap_load", ext2fs, img, g)
                                          ELSE <<>>]
        /\ UNCHANGED <<img, firstLook>>

\* ext2fs_dinode_load(ext2fs, inum), as ext2fs_inode_lookup calls it
DinodeLoad(inum) ==
    LET r == ext2fs_dinode_load(ext2fs, img, inum)
    IN  /\ last.op \in Idle
        /\ ext2fs' = r.e
        /\ last' = [NoCall EXCEPT !.op = "dinode_load", !.a = inum, !.ret = r.ret,
                                  !.seq = ImageReads("dinode_load", ext2fs, img, inum)]
        /\ UNCHANGED <<img, firstLook>>

NextLoad ==
    \/ \E g \in Groups : GroupLoad(g) \/ BmapLoad(g) \/ ImapLoad(g)
    \/ \E i \in RealInodes : DinodeLoad(i)
    \/ Return

(***************************************************************************)
(* The NTFS image: MFT records and the index of a directory.               *)
(***************************************************************************)
NumFiles == 2
MaxClusters == 2

ntfs_first_inum == 0
root_inum == 5
DirB == root_inum + 1
Files == (DirB + 1) .. (DirB + NumFiles)
ntfs_last_inum == DirB + NumFiles + 1
NoInum == ntfs_first_inum - 1

\* an MFT record: in use or not, a directory or not, and the parent references
\* of its $FILE_NAME attributes (meta->name2)
SysRec == [alloc |-> TRUE, dir |-> FALSE, name2 |-> <<>>]
RootRec == [alloc |-> TRUE, dir |-> TRUE, name2 |-> <<root_inum>>]
DirRecs == {[alloc |-> a, dir |-> TRUE, name2 |-> <<root_inum>>] : a \in BOOLEAN}
FileRecs ==
    {[alloc |-> TRUE, dir |-> FALSE, name2 |-> <<root_inum>>]}
    \cup {[alloc |-> FALSE, dir |-> FALSE, name2 |-> n] :
             n \in {<<>>, <<root_inum>>, <<DirB>>, <<DirB, DirB>>}}

Mfts ==
    {[i \in root_inum .. (ntfs_last_inum - 1) |->
         IF i = root_inum THEN RootRec ELSE IF i = DirB THEN b ELSE f[i]] :
     b \in DirRecs, f \in [Files -> FileRecs]}

\* the MFTs whose files are all deleted children of one directory
OrphanMfts ==
    {m \in Mfts : \E d \in {root_inum, DirB} :
        \A i \in Files : ~m[i].alloc /\ m[i].name2 = <<d>>}

\* what a cluster of $INDEX_ALLOCATION holds: no INDX magic, or the start of a
\* record that is sound, fails its fixup, has bad list offsets, or makes the
\* entry parser fail
ClusterKinds == {"none", "ok", "badfix", "badoffs", "procerr"}
ClusterSeqs == UNION {[1 .. n -> ClusterKinds] : n \in 0 .. MaxClusters}

\* the index of a directory: are the $INDEX_ROOT list offsets valid, does the
\* root list say it has children, and the clusters of $INDEX_ALLOCATION
IdxLayouts ==
    {[root_ok |-> TRUE, child |-> cs # <<>>, clusters |-> cs] : cs \in ClusterSeqs}
    \cup {[root_ok |-> FALSE, child |-> FALSE, clusters |-> <<>>],
          [root_ok |-> TRUE, child |-> TRUE, clusters |-> <<>>]}

PlainIdx == [root_ok |-> TRUE, child |-> TRUE, clusters |-> [k \in 1 .. MaxClusters |-> "ok"]]

\* the entries stored in one list (0: the root list, k: the record at cluster k):
\* a live entry, and one in the slack behind the used part of the list
IdxEntries(list) ==
    << [file_ref |-> DirB + 1, slack |-> FALSE, list |-> list, pos |-> 1],
       [file_ref |-> DirB + NumFiles, slack |-> TRUE, list |-> list, pos |-> 2] >>

NImage(m, l, b) == [mft |-> m, idx |-> l, bad |-> b]

NtfsImages ==
    {NImage(m, PlainIdx, NoInum) : m \in Mfts}
    \cup {NImage(m, l, NoInum) : m \in OrphanMfts, l \in IdxLayouts}
    \cup {NImage(m, PlainIdx, b) : m \in Mfts, b \in Files}

MftRec(im, i) == IF i < root_inum THEN SysRec ELSE im.mft[i]

\* tsk_fs_file_open_meta gives the record unless the MFT entry cannot be read
OpenMetaOk(im, i) == i >= ntfs_first_inum /\ i < ntfs_last_inum /\ i # im.bad

(***************************************************************************)
(* The orphan map: a list of buckets [par_addr, addrs], ascending par_addr. *)
(***************************************************************************)
\* a bucket that takes the new child in front
AddChild_front(bucket, child) == [bucket EXCEPT !.addrs = <<child>> \o @]

\* map->addrs[map->used_cnt] = child; map->used_cnt++
AddChild(bucket, child) == [bucket EXCEPT !.addrs = Append(@, child)]

\* the first bucket whose par_addr is not below par (Len + 1 if none)
FirstNotBelow(map, par) ==
    LET js == {j \in 1 .. Len(map) : map[j].par_addr >= par}
    IN  IF js = {} THEN Len(map) + 1 ELSE CHOOSE j \in js : \A k \in js : j <= k

ntfs_orphan_map_add(map, par, child) ==
    LET j == FirstNotBelow(map, par)
    IN  IF j <= Len(map) /\ map[j].par_addr = par
        THEN [map EXCEPT ![j] = AddChild(@, child)]
        ELSE SubSeq(map, 1, j - 1)
             \o <<AddChild([par_addr |-> par, addrs |-> <<>>], child)>>
             \o SubSeq(map, j, Len(map))

\* the index of the bucket of par, 0 for NULL
ntfs_orphan_map_get(map, par) ==
    LET j == FirstNotBelow(map, par)
    IN  IF j <= Len(map) /\ map[j].par_addr = par THEN j ELSE 0

RECURSIVE OrphanActFrom(_, _, _, _)
OrphanActFrom(map, name2, addr, k) ==
    IF k > Len(name2) THEN map
    ELSE OrphanActFrom(ntfs_orphan_map_add(map, name2[k], addr), name2, addr, k + 1)

\* the callback of the walk: one map entry per $FILE_NAME of the file
ntfs_orphan_act(map, im, addr) == OrphanActFrom(map, MftRec(im, addr).name2, addr, 1)

\* inode_walk(first_inum, last_inum, UNALLOC, ntfs_orphan_act): the records not
\* in use, in ascending order; an MFT entry that cannot be read ends the walk
RECURSIVE NtfsInodeWalk(_, _, _)
NtfsInodeWalk(map, im, i) ==
    IF i >= ntfs_last_inum THEN [ret |-> 0, map |-> map]
    ELSE IF i = im.bad THEN [ret |-> 1, map |-> map]
    ELSE NtfsInodeWalk(IF MftRec(im, i).alloc THEN map ELSE ntfs_orphan_act(map, im, i),
                       im, i + 1)

(***************************************************************************)
(* ntfs_dir_open_meta.  A listing is a sequence of [name, meta_addr, flags]; *)
(* a name is written as the place it was read from.                        *)
(***************************************************************************)
NameOf(kind, a, b) == [kind |-> kind, a |-> a, b |-> b]

\* tsk_fs_dir_add: the name goes to the end of the listing
tsk_fs_dir_add(names, name, meta_addr, flags) ==
    Append(names, [name |-> name, meta_addr |-> meta_addr, flags |-> flags])

\* the flag ntfs_proc_idxentry gives to an entry it adds
EntryFlag(a_is_del, entry) == IF a_is_del \/ entry.slack THEN "UNALLOC" ELSE "ALLOC"

RECURSIVE ProcEntriesFrom(_, _, _, _)
ProcEntriesFrom(names, a_is_del, entries, k) ==
    IF k > Len(entries) THEN names
    ELSE ProcEntriesFrom(
             tsk_fs_dir_add(names, NameOf("idx", entries[k].list, entries[k].pos),
                            entries[k].file_ref, EntryFlag(a_is_del, entries[k])),
             a_is_del, entries, k + 1)

\* ntfs_proc_idxentry on the entries of one list
ntfs_proc_idxentry(names, a_is_del, entries) == ProcEntriesFrom(names, a_is_del, entries, 1)

RECURSIVE DotDotFrom(_, _, _)
DotDotFrom(names, name2, k) ==
    IF k > Len(name2) THEN names
    ELSE DotDotFrom(tsk_fs_dir_add(names, NameOf("dotdot", name2[k], k), name2[k], "ALLOC"),
                    name2, k + 1)

\* the made-up "." and ".." entries of a directory other than the root
DotEntries(im, a_addr) ==
    DotDotFrom(tsk_fs_dir_add(<<>>, NameOf("dot", a_addr, 0), a_addr, "ALLOC"),
               MftRec(im, a_addr).name2, 1)

\* one record of $INDEX_ALLOCATION: fixup, offset check, entry parser
ProcRecord(names, a_is_del, kind, k) ==
    IF kind = "badfix" THEN [ret |-> "COR", names |-> names]
    ELSE IF kind = "badoffs" THEN [ret |-> "COR", names |-> names]
    ELSE IF kind = "procerr" THEN [ret |-> "ERR", names |-> names]
    ELSE [ret |-> "OK", names |-> ntfs_proc_idxentry(names, a_is_del, IdxEntries(k))]

\* the loop by cluster size, then the final record; idxrec_p = 0 is NULL
RECURSIVE ClusterLoop(_, _, _, _, _)
ClusterLoop(names, a_is_del, clusters, off, idxrec_p) ==
    IF off > Len(clusters)
    THEN IF idxrec_p = 0 THEN [ret |-> "OK", names |-> names]
         ELSE ProcRecord(names, a_is_del, clusters[idxrec_p], idxrec_p)
    ELSE IF clusters[off] = "none"
    THEN ClusterLoop(names, a_is_del, clusters, off + 1, idxrec_p)
    ELSE IF idxrec_p = 0
    THEN ClusterLoop(names, a_is_del, clusters, off + 1, off)
    ELSE LET r == ProcRecord(names, a_is_del, clusters[idxrec_p], idxrec_p)
         IN  IF r.ret # "OK" THEN r
             ELSE ClusterLoop(r.names, a_is_del, clusters, off + 1, off)

RECURSIVE AttachNames(_, _, _, _, _)
AttachNames(names, name2, addr, a_addr, k) ==
    IF k > Len(name2) THEN names
    ELSE AttachNames(IF name2[k] = a_addr
                     THEN tsk_fs_dir_add(names, NameOf("orphan", addr, k), addr, "UNALLOC")
                     ELSE names,
                     name2, addr, a_addr, k + 1)

RECURSIVE AttachAddrs(_, _, _, _, _)
AttachAddrs(names, im, addrs, a_addr, a) ==
    IF a > Len(addrs) THEN names
    ELSE AttachAddrs(IF OpenMetaOk(im, addrs[a])
                     THEN AttachNames(names, MftRec(im, addrs[a]).name2, addrs[a], a_addr, 1)
                     ELSE names,
                     im, addrs, a_addr, a + 1)

\* the orphan files of the directory, from its bucket of the map
OrphanAttach(names, im, map, a_addr) ==
    LET j == ntfs_orphan_map_get(map, a_addr)
    IN  IF j = 0 THEN names ELSE AttachAddrs(names, im, map[j].addrs, a_addr, 1)

\* what a call leaves: its return value, the listing, the orphan map, whether
\* the map was consulted, and whether the map-building inode walk was run
DirResult(ret, names, map, consulted) ==
    [ret |-> ret, names |-> names, map |-> map, consulted |-> consulted,
     walked |-> FALSE]

\* the part of ntfs_dir_open_meta after the index has been read
OrphanStep(names, im, map, a_addr) ==
    LET w == IF map = <<>> THEN NtfsInodeWalk(map, im, ntfs_first_inum)
             ELSE [ret |-> 0, map |-> map]
        n3 == OrphanAttach(names, im, w.map, a_addr)
        n4 == IF a_addr = root_inum
              THEN tsk_fs_dir_add(n3, NameOf("orphandir", ntfs_last_inum, 0),
                                  ntfs_last_inum, "ALLOC")
              ELSE n3
    IN  IF w.ret = 1
        THEN [DirResult("ERR", names, w.map, FALSE) EXCEPT !.walked = (map = <<>>)]
        ELSE [DirResult("OK", n4, w.map, TRUE) EXCEPT !.walked = (map = <<>>)]

ntfs_dir_open_meta(map, im, a_addr) ==
    IF a_addr < ntfs_first_inum \/ a_addr > ntfs_last_inum
    THEN DirResult("ERR", <<>>, map, FALSE)
    ELSE IF a_addr = ntfs_last_inum
    THEN DirResult("OK", <<>>, map, FALSE)
    ELSE IF ~OpenMetaOk(im, a_addr) \/ ~MftRec(im, a_addr).dir
    THEN DirResult("COR", <<>>, map, FALSE)
    ELSE LET a_is_del == ~MftRec(im, a_addr).alloc
             n1 == IF a_addr # root_inum THEN DotEntries(im, a_addr) ELSE <<>>
             n2 == ntfs_proc_idxentry(n1, a_is_del, IdxEntries(0))
             r == IF im.idx.clusters = <<>> THEN [ret |-> "OK", names |-> n2]
                  ELSE ClusterLoop(n2, a_is_del, im.idx.clusters, 1, 0)
         IN  IF ~im.idx.root_ok THEN DirResult("COR", n1, map, FALSE)
             ELSE IF im.idx.clusters = <<>> /\ im.idx.child
             THEN DirResult("COR", n2, map, FALSE)
             ELSE IF r.ret # "OK" THEN DirResult(r.ret, r.names, map, FALSE)
             ELSE OrphanStep(r.names, im, map, a_addr)

(***************************************************************************)
(* The calls on an NTFS handle.                                            *)
(***************************************************************************)
NoDirCall == [op |-> "open", a_addr |-> NoInum, ret |-> "OK", names |-> <<>>,
              consulted |-> FALSE]

\* the opens of one handle that run the map-building walk are counted up to
MaxWalks == 2

InitDir(images) ==
    /\ nimg \in images
    /\ ntfs = [orphan_map |-> <<>>, walks |-> 0]
    /\ dlast = NoDirCall

\* ntfs_dir_open_meta(a_addr) with a fresh TSK_FS_DIR
DirOpen(a_addr) ==
    LET r == ntfs_dir_open_meta(ntfs.orphan_map, nimg, a_addr)
    IN  /\ dlast.op \in Idle
        /\ ntfs.walks < MaxWalks
        /\ ntfs' = [orphan_map |-> r.map,
                    walks |-> IF r.walked THEN ntfs.walks + 1 ELSE ntfs.walks]
        /\ dlast' = [op |-> "dir_open", a_addr |-> a_addr, ret |-> r.ret,
                     names |-> r.names, consulted |-> r.consulted]
        /\ UNCHANGED nimg

\* the caller has taken the listing and may open another directory
DirReturn ==
    /\ dlast.op \notin Idle
    /\ dlast' = [NoDirCall EXCEPT !.op = "returned"]
    /\ UNCHANGED <<nimg, ntfs>>

\* the addresses opened: the directories, the files, and one beyond last_inum
OpenAddrs == {root_inum, DirB} \cup Files \cup {ntfs_last_inum + 1}

NextDir ==
    \/ \E a \in OpenAddrs : DirOpen(a)
    \/ DirReturn

(***************************************************************************)
(* ntfs_find_file: the paths of an MFT entry, found by following the        *)
(* parent references of its $FILE_NAME attributes up to the root.  A call   *)
(* in progress is its stack of name loops: frame [addr, k] is the loop over *)
(* meta->name2 of entry addr, about to look at name k.                      *)
(***************************************************************************)
\* the frames of ntfs_find_file_rec the C stack can hold: a call that needs
\* more ends the process and never returns
MaxStack == 6

\* the images searched: every entry above the root is in use, DirB is a
\* directory, and the parent references may lead anywhere, also in a circle;
\* a reference to an entry that is not a directory stands also for one whose
\* sequence number no longer matches
FindImages ==
    LET names == {<<p>> : p \in {root_inum, DirB, DirB + 1}}
                 \cup {<<root_inum, DirB>>, <<DirB, DirB + 1>>}
        mfts == {[i \in root_inum .. (ntfs_last_inum - 1) |->
                     IF i = root_inum THEN RootRec
                     ELSE [alloc |-> TRUE, dir |-> (i = DirB \/ d[i]), name2 |-> n[i]]] :
                 d \in [{DirB} \cup Files -> BOOLEAN],
                 n \in [{DirB} \cup Files -> names]}
    IN  {NImage(m, PlainIdx, NoInum) : m \in mfts}
        \cup {NImage(m, PlainIdx, DirB) : m \in mfts}

\* ntfs_find_file(inode_toid, dir_walk_flags) up to its loop over the names
FindFile(inode_toid, dir_walk_flags) ==
    LET fail == \/ inode_toid < ntfs_first_inum \/ inode_toid > ntfs_last_inum
                \/ ~OpenMetaOk(nimg, inode_toid)
                \/ (MftRec(nimg, inode_toid).alloc /\ "ALLOC" \notin dir_walk_flags)
                \/ (~MftRec(nimg, inode_toid).alloc /\ "UNALLOC" \notin dir_walk_flags)
    IN  /\ dlast.op \in Idle
        /\ dlast' = IF fail
                    THEN [op |-> "find_done", a_addr |-> inode_toid, ret |-> "ERR",
                          stack |-> <<>>, calls |-> 0,
                          stopped |-> FALSE, errored |-> FALSE, again |-> FALSE]
                    ELSE [op |-> "find_file", a_addr |-> inode_toid, ret |-> "OK",
                          stack |-> <<[addr |-> inode_toid, k |-> 1]>>, calls |-> 0,
                          stopped |-> FALSE, errored |-> FALSE, again |-> FALSE]
        /\ UNCHANGED <<nimg, ntfs>>

\* one turn of the innermost name loop, in ntfs_find_file (one frame) or in
\* ntfs_find_file_rec (more); retval is what the callback answers if called
FindStep(retval) ==
    LET depth == Len(dlast.stack)
        f == dlast.stack[depth]
        list == MftRec(nimg, f.addr).name2
        par == list[f.k]
        below == SubSeq(dlast.stack, 1, depth - 1)
        next == Append(below, [f EXCEPT !.k = f.k + 1])
        done(r) == [dlast EXCEPT !.op = "find_done", !.ret = r, !.stack = <<>>]
        \* action(fs_file, path, ptr) is called and answers retval: stopped and
        \* errored say that it has answered STOP or ERROR in this call of
        \* ntfs_find_file, again that it was called after such an answer
        called(d) == [d EXCEPT !.calls = 1,
                               !.again = @ \/ dlast.stopped \/ dlast.errored,
                               !.stopped = @ \/ retval = "STOP",
                               !.errored = @ \/ retval = "ERROR"]
        overflow == [dlast EXCEPT !.op = "stack_overflow", !.stack = <<>>]
    IN  /\ dlast.op = "find_file"
        /\ dlast' =
              IF f.k > Len(list)
              THEN \* the loop is over: return to the loop below
                   IF depth = 1 THEN done("OK") ELSE [dlast EXCEPT !.stack = below]
              ELSE IF par = root_inum
              THEN \* the path is complete
                   IF retval = "ERROR" THEN called(done("ERR"))
                   ELSE IF retval = "STOP" /\ depth = 1 THEN called(done("OK"))
                   ELSE called([dlast EXCEPT !.stack = next])
              ELSE IF par < ntfs_first_inum \/ par > ntfs_last_inum
                      \/ ~OpenMetaOk(nimg, par)
              THEN done("ERR")
              ELSE IF ~MftRec(nimg, par).dir
              THEN \* the parent is gone: the path starts at the orphan directory
                   IF retval = "ERROR" THEN called(done("ERR"))
                   ELSE called([dlast EXCEPT !.stack = next])
              ELSE \* ntfs_find_file_rec on the parent's names
                   IF depth = MaxStack THEN overflow
                   ELSE [dlast EXCEPT !.stack = Append(next, [addr |-> par, k |-> 1])]
        /\ UNCHANGED <<nimg, ntfs>>

\* the caller has taken the result of ntfs_find_file
FindReturn ==
    /\ dlast.op = "find_done"
    /\ dlast' = [NoDirCall EXCEPT !.op = "returned"]
    /\ UNCHANGED <<nimg, ntfs>>

NextFind ==
    \/ \E i \in {DirB} \cup Files, fl \in {{"ALLOC", "UNALLOC"}, {"UNALLOC"}} :
           FindFile(i, fl)
    \/ \E retval \in {"CONT", "STOP", "ERROR"} : FindStep(retval)
    \/ FindReturn

(***************************************************************************)
(* The path buffer of ntfs_find_file (NTFS_DINFO): dirs is filled from its *)
(* end towards its start, didx[d] is the offset in dirs where the path of  *)
(* level d starts, depth is the number of levels in use.  frames holds     *)
(* decrem of every loop turn of ntfs_find_file_rec that is waiting for its *)
(* recursive call.                                                         *)
(***************************************************************************)
MAX_DEPTH == 3
DIR_STRSZ == 8
MaxLevels == 5
NullPtr == 0 - 1

\* the pointers a char * can hold, as offsets into dirs
Ptrs == {NullPtr} \cup (0 .. (DIR_STRSZ - 1))

\* memset(&dinfo, 0, ...); didx[0] = &dirs[DIR_STRSZ - 2]; depth = 1
PathStart ==
    [op |-> "find_path", step |-> "start", depth |-> 1,
     didx |-> [d \in 0 .. (MAX_DEPTH - 1) |->
                  IF d = 0 THEN DIR_STRSZ - 2 ELSE NullPtr],
     frames |-> <<>>, fit |-> TRUE, begin |-> DIR_STRSZ - 2, idx |-> 0,
     depth_in |-> 1]

\* one turn of the loop over the parent's names in ntfs_find_file_rec, for a
\* name of len characters: the path is prepended if it fits, then the callback
\* is called (the name lies under the root) or the function calls itself.
\* garbage is what didx[MAX_DEPTH], behind the array, happens to hold.
PathLevel(len, at_root, garbage) ==
    LET depth == dlast.depth
        didx == dlast.didx
        fit == (didx[depth - 1] - len - 1 >= 0) /\ depth < MAX_DEPTH
        begin == IF fit THEN didx[depth - 1] - len - 1
                 ELSE IF depth \in DOMAIN didx THEN didx[depth]
                 ELSE garbage
        didx1 == IF fit THEN [didx EXCEPT ![depth] = begin] ELSE didx
        depth1 == IF fit THEN depth + 1 ELSE depth
    IN  /\ dlast.op = "find_path"
        /\ Len(dlast.frames) < MaxLevels
        /\ (fit \/ depth \in DOMAIN didx) => garbage = NullPtr
        /\ dlast' = [dlast EXCEPT
                        !.step = IF at_root THEN "called" ELSE "level",
                        !.didx = didx1,
                        !.depth = IF at_root /\ fit THEN depth1 - 1 ELSE depth1,
                        !.frames = IF at_root THEN @ ELSE Append(@, fit),
                        !.fit = fit, !.begin = begin, !.idx = depth,
                        !.depth_in = depth]
        /\ UNCHANGED <<nimg, ntfs>>

\* the recursive call returns: if (decrem) dinfo->depth--
PathUp ==
    LET n == Len(dlast.frames)
    IN  /\ dlast.op = "find_path"
        /\ n > 0
        /\ dlast' = [dlast EXCEPT
                        !.step = "up",
                        !.depth = IF dlast.frames[n] THEN @ - 1 ELSE @,
                        !.frames = SubSeq(@, 1, n - 1),
                        !.fit = TRUE, !.idx = 0, !.begin = dlast.didx[0],
                        !.depth_in = dlast.depth]
        /\ UNCHANGED <<nimg, ntfs>>

NextPath ==
    \/ \E len \in {1, 3}, at_root \in BOOLEAN, garbage \in Ptrs :
           PathLevel(len, at_root, garbage)
    \/ PathUp

(***************************************************************************)
(* ntfs_fix_idxrec.  Memory is a function from byte offsets, counted from   *)
(* the start of the record, to bytes; the record is its first len bytes and *)
(* what follows is whatever lies behind the record in the buffer.           *)
(***************************************************************************)
SectorSize == 4
MaxSectors == 2
MaxByte == 1
MemLen == MaxSectors * SectorSize + 4
UintMod == 65536

\* tsk_getu16, little endian
tsk_getu16(mem, off) == mem[off] + 256 * mem[off + 1]

\* (unsigned int) x for an int x
ToUnsigned(x) == x % UintMod

FixRecs ==
    [mem : [0 .. (MemLen - 1) -> 0 .. MaxByte],
     upd_off : 0 .. (MemLen - 2 * (MaxSectors + 1)),
     upd_cnt : 0 .. (MaxSectors + 1),
     len : {k * SectorSize : k \in 1 .. MaxSectors}]

\* *old_val++ = *new_val++; *old_val = *new_val;
CopyTwo(mem, old_val, new_val) ==
    LET m1 == [mem EXCEPT ![old_val] = mem[new_val]]
    IN  [m1 EXCEPT ![old_val + 1] = m1[new_val + 1]]

\* the loop over the sectors, from sector i on; touched are the offsets of
\* the bytes it reads or writes
RECURSIVE FixLoop(_, _, _, _, _)
FixLoop(mem, upd_off, upd_cnt, orig_seq, i) ==
    IF ~(i < upd_cnt) THEN [ret |-> 0, mem |-> mem, touched |-> {}]
    ELSE LET offset == i * SectorSize - 2
             new_val == upd_off + 2 + (i - 1) * 2
             here == {offset, offset + 1, new_val, new_val + 1}
         IN  IF tsk_getu16(mem, offset) # orig_seq
             THEN [ret |-> 1, mem |-> mem, touched |-> here]
             ELSE LET r == FixLoop(CopyTwo(mem, offset, new_val), upd_off,
                                   upd_cnt, orig_seq, i + 1)
                  IN  [r EXCEPT !.touched = @ \cup here]

ntfs_fix_idxrec(rec) ==
    IF ToUnsigned((rec.upd_cnt - 1) * SectorSize) > rec.len
    THEN [ret |-> 1, mem |-> rec.mem, touched |-> {}]
    ELSE LET r == FixLoop(rec.mem, rec.upd_off, rec.upd_cnt,
                          tsk_getu16(rec.mem, rec.upd_off), 1)
         IN  [r EXCEPT !.touched = @ \cup {rec.upd_off, rec.upd_off + 1}]

NoFix == [op |-> "none", ret |-> 0, mem |-> <<>>]

InitFix(recs) ==
    /\ frec \in recs
    /\ fres = NoFix

FixIdxrec ==
    LET r == ntfs_fix_idxrec(frec)
    IN  /\ fres.op = "none"
        /\ fres' = [op |-> "fix", ret |-> r.ret, mem |-> r.mem, touched |-> r.touched]
        /\ UNCHANGED frec

NextFix == FixIdxrec

(***************************************************************************)
(* ext2fs_dinode_copy, the target of a symbolic link.  The stored target   *)
(* is written by position: its p-th byte is p, or 0 - p if it is a control *)
(* character.  fs_meta->link is a buffer of size + 1 bytes, offsets        *)
(* 0 .. size, filled with zeros when allocated.                            *)
(***************************************************************************)
\* 4 * (EXT2FS_NDADDR + EXT2FS_NIADDR), EXT2FS_NDADDR, fs->block_size and
\* EXT2FS_MAXPATHLEN, scaled
LinkInline == 4
LinkBlocks == 3
LinkBlockSize == 4
LinkMaxPath == 12
Caret == 94

\* the inode: its size, the position of the one control character of the
\* target (0: none) and the direct block that cannot be read (0: none)
LinkInodes ==
    {r \in [size : 0 .. (LinkMaxPath - 1), ctl : 0 .. (LinkMaxPath - 1),
            badblk : 0 .. LinkBlocks] : r.ctl <= r.size}

\* byte p of the stored target
Stored(ino, p) == IF p = ino.ctl THEN 0 - p ELSE p

\* memcpy(a_ptr, data_buf, read_count) of the block the target continues in
\* from position count + 1; a write behind the buffer is told in over
RECURSIVE CopyBytes(_, _, _, _, _, _)
CopyBytes(ino, link, over, a_ptr, count, t) ==
    IF t = 0 THEN [link |-> link, over |-> over]
    ELSE LET at == a_ptr + t - 1
         IN  CopyBytes(ino,
                       IF at \in DOMAIN link
                       THEN [link EXCEPT ![at] = Stored(ino, count + t)] ELSE link,
                       over \/ at \notin DOMAIN link, a_ptr, count, t - 1)

\* the loop over the direct blocks
RECURSIVE LinkBlocksFrom(_, _, _, _, _, _)
LinkBlocksFrom(ino, link, over, a_ptr, count, i) ==
    IF ~(i < LinkBlocks /\ count < ino.size)
    THEN \* *a_ptr = '\0'
         [ret |-> 0,
          link |-> IF a_ptr \in DOMAIN link THEN [link EXCEPT ![a_ptr] = 0] ELSE link,
          over |-> over \/ a_ptr \notin DOMAIN link]
    ELSE LET read_count == IF ino.size - count < LinkBlockSize
                           THEN ino.size - count ELSE LinkBlockSize
             c == CopyBytes(ino, link, over, a_ptr, count, read_count)
             count1 == count + read_count
         IN  IF ino.badblk = i + 1 THEN [ret |-> 1, link |-> link, over |-> over]
             ELSE LinkBlocksFrom(ino, c.link, c.over, a_ptr + count1, count1, i + 1)

\* while (link[i] != '\0') { if (TSK_IS_CNTRL(link[i])) link[i] = '^'; i++; }
RECURSIVE CleanLink(_, _)
CleanLink(link, i) ==
    IF i \notin DOMAIN link \/ link[i] = 0 THEN link
    ELSE CleanLink(IF link[i] < 0 THEN [link EXCEPT ![i] = Caret] ELSE link, i + 1)

\* the part of ext2fs_dinode_copy that sets fs_meta->link
LinkTarget(ino) ==
    LET empty == [k \in 0 .. ino.size |-> 0]
        inline == [k \in 0 .. ino.size |-> IF k < ino.size THEN Stored(ino, k + 1) ELSE 0]
        r == IF ino.size < LinkInline
             THEN [ret |-> 0, link |-> inline, over |-> FALSE]
             ELSE LinkBlocksFrom(ino, empty, FALSE, 0, 0, 0)
    IN  IF r.ret # 0 THEN r ELSE [r EXCEPT !.link = CleanLink(r.link, 0)]

\* ext2fs_dinode_copy of a symbolic link with size < EXT2FS_MAXPATHLEN
DinodeCopyLink ==
    LET r == LinkTarget(frec)
    IN  /\ fres.op = "none"
        /\ fres' = [op |-> "dinode_copy", ret |-> r.ret, mem |-> <<>>,
                    link |-> r.link, over |-> r.over]
        /\ UNCHANGED frec

NextLink == DinodeCopyLink

(***************************************************************************)
(* ntfs_proc_idxentry and ntfs_dent_copy over the bytes of a buffer: which *)
(* bytes of the buffer a_idxe .. a_idxe + a_idxe_len the parser reads.     *)
(* Offsets are relative to a_idxe.                                         *)
(***************************************************************************)
\* the bytes of an ntfs_idxentry before its stream, of an ntfs_attr_fname
\* before its name, and sizeof(ntfs_attr_fname)
IdxHdrLen == 16
FnameLen == 66
FnameSize == 67

\* the longest buffer, and the longest name length an entry claims
MaxBufLen == 180
MaxNlen == 8

\* an index entry as the parser reads it: the fields of its header and of its
\* $FILE_NAME, and the bytes it takes in the buffer (slot)
GoodEntry(slot, del, nspace, nlen) ==
    [slot |-> slot, file_ref |-> DirB + 1, idxlen |-> slot,
     strlen |-> IF del THEN 0 ELSE FnameLen + 2, nlen |-> nlen, nspace |-> nspace,
     sizes_ok |-> TRUE, name_ok |-> TRUE, times_ok |-> TRUE, utf_ok |-> TRUE]

\* entries that fail one test of the header
BadHeaders ==
    LET g == GoodEntry(84, FALSE, "WIN32", 1)
    IN  {[g EXCEPT !.file_ref = ntfs_last_inum + 1],
         [g EXCEPT !.strlen = g.idxlen],
         [g EXCEPT !.idxlen = 86],
         [g EXCEPT !.idxlen = MaxBufLen + 4]}

\* entries that fail one test made on deleted entries, or whose name cannot
\* be converted
BadBodies ==
    UNION {LET g == GoodEntry(84, del, "WIN32", 1)
           IN  {[g EXCEPT !.nspace = "NONE"],
                [g EXCEPT !.sizes_ok = FALSE],
                [g EXCEPT !.nlen = 0],
                [g EXCEPT !.name_ok = FALSE],
                [g EXCEPT !.times_ok = FALSE],
                [g EXCEPT !.utf_ok = FALSE]} : del \in BOOLEAN}

\* the buffers parsed: up to two entries, one behind the other from offset 0,
\* each in its slot; every other position of the buffer holds a candidate that
\* the header test rejects (zeros).  An entry says any name length in nlen,
\* whatever its slot.  align is the address of a_idxe modulo 4, used is
\* a_used_len.
IdxBufs ==
    LET ents == {GoodEntry(l, d, s, n) : l \in {84, 88}, d \in BOOLEAN,
                                         s \in {"WIN32", "DOS"}, n \in {1, 3, MaxNlen}}
                \cup BadHeaders \cup BadBodies
        lists == {<<>>} \cup {<<e>> : e \in ents}
                 \cup {<<e1, e2>> : e1 \in ents, e2 \in ents}
        total(es) == IF es = <<>> THEN 0
                     ELSE IF Len(es) = 1 THEN es[1].slot
                     ELSE es[1].slot + es[2].slot
        lens == {84, 88, 92, MaxBufLen - 8, MaxBufLen - 4, MaxBufLen}
    IN  {b \in [len : lens, used : {0, 88} \cup lens \cup {MaxBufLen + 4},
                align : {0, 2}, ents : lists] :
            /\ total(b.ents) <= b.len
            /\ b.used \in {0, 88, b.len, MaxBufLen + 4}}

Filler ==
    [slot |-> 4, file_ref |-> 0, idxlen |-> 0, strlen |-> 0, nlen |-> 0,
     nspace |-> "POSIX", sizes_ok |-> TRUE, name_ok |-> FALSE, times_ok |-> TRUE,
     utf_ok |-> TRUE]

\* the fields of the ntfs_idxentry read at offset p of the buffer
EntryAt(buf, p) ==
    LET es == buf.ents
    IN  IF p = 0 /\ Len(es) >= 1 THEN es[1]
        ELSE IF Len(es) = 2 /\ p = es[1].slot THEN es[2]
        ELSE Filler

\* a header test that does not look at the alignment of idxlen
HeaderOk_any_alignment(e, a_idxe_len) ==
    ~ \/ e.file_ref > ntfs_last_inum \/ e.file_ref < ntfs_first_inum
      \/ e.idxlen <= e.strlen
      \/ e.idxlen > a_idxe_len

\* the sanity checks on the index buffer head
HeaderOk(e, a_idxe_len) ==
    ~ \/ e.file_ref > ntfs_last_inum \/ e.file_ref < ntfs_first_inum
      \/ e.idxlen <= e.strlen
      \/ e.idxlen % 4 # 0
      \/ e.idxlen > a_idxe_len

\* the sanity checks on the deleted entries
DeletedOk(e) ==
    /\ e.nspace \in {"POSIX", "WIN32", "DOS", "WINDOS"}
    /\ e.sizes_ok /\ e.nlen # 0 /\ e.name_ok
    /\ e.times_ok

\* a flag that forgets the deleted directory
IdxFlags_of_entry_only(a_is_del, late) == IF late THEN "UNALLOC" ELSE "ALLOC"

\* fs_name->flags of an entry; late: strlen = 0 or the entry ends behind
\* a_used_len
IdxFlags(a_is_del, late) == IF a_is_del \/ late THEN "UNALLOC" ELSE "ALLOC"

\* an advance by idxlen for every entry
IncrEntry_by_idxlen(align, p, e) == p + e.idxlen

\* incr_entry: the offset of the next candidate behind the entry at p
IncrEntry(align, p, e) ==
    IF e.strlen = 0
    THEN (((align + p + IdxHdrLen + FnameLen + 2 * e.nlen + 3) \div 4) * 4) - align
    ELSE p + e.idxlen

\* the loop of ntfs_proc_idxentry from offset p on; hi is the offset behind
\* the last byte read so far, names the entries added to the directory, steps
\* the turns of the loop: where the candidate was, what became of it, and
\* where the next one is
RECURSIVE ProcIdxFrom(_, _, _, _, _, _)
ProcIdxFrom(buf, a_is_del, p, hi, names, steps) ==
    LET e == EntryAt(buf, p)
        Max(a, b) == IF a > b THEN a ELSE b
        head == Max(hi, p + IdxHdrLen + FnameSize)
        late == e.strlen = 0 \/ p + e.idxlen > buf.used
        \* ntfs_dent_copy converts nlen UTF-16 units that start at fname->name
        copied == Max(head, p + IdxHdrLen + FnameLen + 2 * e.nlen)
        next == IncrEntry(buf.align, p, e)
        turn(kind, to) == Append(steps, [at |-> p, kind |-> kind, to |-> to])
    IN  IF ~(p + IdxHdrLen + FnameSize < buf.len)
        THEN [ret |-> "OK", hi |-> hi, names |-> names, steps |-> steps]
        ELSE IF ~HeaderOk(e, buf.len)
        THEN ProcIdxFrom(buf, a_is_del, p + 4, head, names, turn("rejected", p + 4))
        ELSE IF late /\ ~DeletedOk(e)
        THEN ProcIdxFrom(buf, a_is_del, p + 4, head, names, turn("implausible", p + 4))
        ELSE IF e.nspace = "DOS"
        THEN ProcIdxFrom(buf, a_is_del, next, head, names, turn("dos", next))
        ELSE IF ~e.utf_ok
        THEN ProcIdxFrom(buf, a_is_del, next, copied, names, turn("nocopy", next))
        ELSE ProcIdxFrom(buf, a_is_del, next, copied,
                         Append(names, [off |-> p, flags |-> IdxFlags(a_is_del, late)]),
                         turn("added", next))

\* ntfs_proc_idxentry(a_is_del, a_idxe, a_idxe_len, a_used_len)
ProcIdx(a_is_del) ==
    LET r == IF frec.len < frec.used
             THEN [ret |-> "ERR", hi |-> 0, names |-> <<>>, steps |-> <<>>]
             ELSE ProcIdxFrom(frec, a_is_del, 0, 0, <<>>, <<>>)
    IN  /\ fres.op = "none"
        /\ fres' = [op |-> "proc_idxentry", ret |-> r.ret, mem |-> <<>>,
                    a_is_del |-> a_is_del, hi |-> r.hi, names |-> r.names,
                    steps |-> r.steps]
        /\ UNCHANGED frec

NextIdx == \E a_is_del \in BOOLEAN : ProcIdx(a_is_del)

(***************************************************************************)
(* ntfs_dir_open_meta, the final index record: the lengths computed from   *)
(* the addresses.  uint32_t is arithmetic modulo UintMod; a pointer is as  *)
(* wide as uint32_t or wider, and uintptr_t is arithmetic modulo ptr.      *)
(***************************************************************************)
\* the offset of list in ntfs_idxrec, and the cluster size
ListOff == 24
ClusterSize == 64
MaxClustersAlloc == 2

PtrMods == {UintMod, UintMod * 256}

\* the buffer idxalloc (address base, idxalloc_len bytes), the offset off of
\* the last record found in it, and the fields read of that record
FinalRecs ==
    {r \in [ptr : PtrMods,
            base : {0, 8, UintMod \div 2, UintMod \div 2 + 8, UintMod + 8},
            len : {k * ClusterSize : k \in 1 .. MaxClustersAlloc},
            off : {k * ClusterSize : k \in 0 .. (MaxClustersAlloc - 1)},
            begin_off : {16, 24, 4 * ClusterSize},
            seqend_off : {24, 32, 4 * ClusterSize},
            upd_cnt : 1 .. (MaxSectors + 1)] :
        /\ r.base + r.len < r.ptr
        /\ r.off < r.len}

\* if (idxrec_p) { ... } behind the loop over the clusters
FinalRecord ==
    LET idxalloc == frec.base
        idxalloc_len == frec.len
        idxrec_p == idxalloc + frec.off
        rec_len == (idxalloc_len - idxrec_p - idxalloc) % UintMod
        fix == ntfs_fix_idxrec([mem |-> [k \in 0 .. (MemLen - 1) |-> 0],
                                upd_off |-> 0, upd_cnt |-> frec.upd_cnt,
                                len |-> rec_len])
        idxelist == idxrec_p + ListOff
        idxe == (idxelist + frec.begin_off) % frec.ptr
        list_len == (((idxalloc + idxalloc_len) % UintMod) - idxe) % UintMod
        bad == \/ list_len > rec_len
               \/ (idxelist + frec.seqend_off) % frec.ptr > idxalloc + idxalloc_len
        used == (frec.seqend_off - frec.begin_off) % UintMod
    IN  /\ fres.op = "none"
        /\ fres' = [op |-> "final_record", mem |-> <<>>,
                    ret |-> IF fix.ret # 0 \/ bad THEN "COR" ELSE "OK",
                    rec_len |-> rec_len, fixed |-> fix.ret = 0,
                    list_len |-> list_len, idxe |-> idxe,
                    parsed |-> fix.ret = 0 /\ ~bad, a_used_len |-> used]
        /\ UNCHANGED frec

NextFinal == FinalRecord

(***************************************************************************)
(* The specifications: one handle is exercised, the other stays as opened. *)
(***************************************************************************)
IdleExtImage == Image(NoFault, 0, {})
IdleNtfsImage == NImage(CHOOSE m \in OrphanMfts : TRUE, PlainIdx, NoInum)

IdleFixRec == [mem |-> [k \in 0 .. (MemLen - 1) |-> 0], upd_off |-> 0, upd_cnt |-> 1,
               len |-> SectorSize]

Init == InitExt(ExtImages) /\ InitDir({IdleNtfsImage}) /\ InitFix({IdleFixRec})
Next == NextExt /\ UNCHANGED <<dirVars, fixVars>>
Spec == Init /\ [][Next]_vars

SpecLook == Init /\ [][NextLook /\ UNCHANGED <<dirVars, fixVars>>]_vars

InitD == InitExt({IdleExtImage}) /\ InitDir(NtfsImages) /\ InitFix({IdleFixRec})
SpecDir == InitD /\ [][NextDir /\ UNCHANGED <<extVars, fixVars>>]_vars

SpecBlk == Init /\ [][NextBlk /\ UNCHANGED <<dirVars, fixVars>>]_vars

SpecLoad == Init /\ [][NextLoad /\ UNCHANGED <<dirVars, fixVars>>]_vars

\* the images walked: the undamaged ones and those with one corrupt descriptor
WalkImages ==
    {Image(NoFault, c, {}) : c \in Classes} \cup {Image(flt, 0, {}) : flt \in Faults}

InitW == InitExt(WalkImages) /\ InitDir({IdleNtfsImage}) /\ InitFix({IdleFixRec})
SpecWalk == InitW /\ [][NextWalk /\ UNCHANGED <<dirVars, fixVars>>]_vars

InitFind == InitExt({IdleExtImage}) /\ InitDir(FindImages) /\ InitFix({IdleFixRec})
SpecFind ==
    /\ InitFind
    /\ [][NextFind /\ UNCHANGED <<extVars, fixVars>>]_vars
    /\ WF_vars(NextFind /\ UNCHANGED <<extVars, fixVars>>)

InitPath ==
    /\ InitExt({IdleExtImage}) /\ InitFix({IdleFixRec})
    /\ nimg = IdleNtfsImage
    /\ ntfs = [orphan_map |-> <<>>, walks |-> 0]
    /\ dlast = PathStart
SpecPath == InitPath /\ [][NextPath /\ UNCHANGED <<extVars, fixVars>>]_vars

InitLink == InitExt({IdleExtImage}) /\ InitDir({IdleNtfsImage}) /\ InitFix(LinkInodes)
SpecLink == InitLink /\ [][NextLink /\ UNCHANGED <<extVars, dirVars>>]_vars

InitI == InitExt({IdleExtImage}) /\ InitDir({IdleNtfsImage}) /\ InitFix(IdxBufs)
SpecIdx == InitI /\ [][NextIdx /\ UNCHANGED <<extVars, dirVars>>]_vars

InitFinal == InitExt({IdleExtImage}) /\ InitDir({IdleNtfsImage}) /\ InitFix(FinalRecs)
SpecFinal == InitFinal /\ [][NextFinal /\ UNCHANGED <<extVars, dirVars>>]_vars

InitF == InitExt({IdleExtImage}) /\ InitDir({IdleNtfsImage}) /\ InitFix(FixRecs)
SpecFix == InitF /\ [][NextFix /\ UNCHANGED <<extVars, dirVars>>]_vars

(***************************************************************************)
(* Properties of the ext handle.                                           *)
(***************************************************************************)
Range(seq) == {seq[k] : k \in 1 .. Len(seq)}

Interval(a, b) == [k \in 1 .. (b - a + 1) |-> a + k - 1]

Ascending(seq) == \A k \in 1 .. (Len(seq) - 1) : seq[k] < seq[k + 1]

\* C1: on an image where every read succeeds and with a callback that always
\* answers CONT, a walk of real inodes with ALLOC|UNALLOC|USED|UNUSED hands
\* every inode of the range to the callback exactly once, in ascending order.
C1_WalkVisitsEachInodeOnce ==
    (/\ last.op = "inode_walk"
     /\ CleanImage(img)
     /\ last.cb = AlwaysCont
     /\ last.flags = AllFour
     /\ last.b <= last_inum - 1)
    => /\ last.ret = 0
       /\ last.seq = Interval(last.a, last.b)

C1_Witness ==
    /\ last.op = "inode_walk"
    /\ CleanImage(img)
    /\ last.cb = AlwaysCont
    /\ last.flags = AllFour
    /\ last.a = first_inum
    /\ last.b = last_inum - 1
    /\ Len(last.seq) = last_inum - first_inum
    /\ ext2fs.dino_inum = last_inum - 1

\* C2: block_get_flags(b) answers exactly one of ALLOC / UNALLOC and exactly
\* one of META / CONT, for every block, every image and every earlier call.
C2_FlagsExactlyOneOfEachPair ==
    last.op = "block_getflags"
    => /\ Cardinality(last.flags \cap {"ALLOC", "UNALLOC"}) = 1
       /\ Cardinality(last.flags \cap {"META", "CONT"}) = 1

\* C3: two successful inode_lookup(i) on one handle give the same metadata,
\* whatever loads and lookups, successful or failed, happen in between.
C3_RepeatedLookupIdentical ==
    (/\ last.op = "inode_lookup"
     /\ last.ret = 0
     /\ firstLook.inum = last.a)
    => last.meta = firstLook.meta

\* C5: whenever the group-descriptor slot is tagged with group g it holds the
\* descriptor of g, and the three offsets of that descriptor are <= last_block.
C5_TaggedSlotHoldsValidDescriptor ==
    ext2fs.grp_num \in Groups
    => /\ ext2fs.grp_buf = img.gd[ext2fs.grp_num]
       /\ GdInRange(ext2fs.grp_buf)

\* the inodes an ORPHAN walk is said to deliver, by the value of ctime
OrphansBy(im, zero) ==
    {i \in RealInodes : /\ ~InodeAllocated(im, i)
                        /\ (InodeCtime(im, i) = 0) = zero
                        /\ ~InodeNamed(im, i)}

OrphanWalkDone ==
    /\ last.op = "inode_walk"
    /\ CleanImage(img)
    /\ last.cb = AlwaysCont
    /\ last.flags = {"ORPHAN"}
    /\ last.a = first_inum
    /\ last.b = last_inum

\* C10 (as stated): inode_walk(first_inum, last_inum, ORPHAN) delivers the
\* inodes that are unallocated, have ctime = 0 and are in no surviving
\* name, and no other inode.
C10_OrphanWalkDeliversCtimeZero ==
    OrphanWalkDone => Range(last.seq) = OrphansBy(img, TRUE)

\* C10 (amended): on an image where every read succeeds and with a callback
\* that always answers CONT, inode_walk(first_inum, last_inum, ORPHAN)
\* delivers, once each and in ascending order, the inodes that are
\* unallocated, have ctime # 0 and are in no surviving name, and no other.
C10_OrphanWalkDeliversUsedUnnamed ==
    OrphanWalkDone
    => /\ last.ret = 0
       /\ Range(last.seq) = OrphansBy(img, FALSE)
       /\ Ascending(last.seq)

C10_Witness ==
    /\ OrphanWalkDone
    /\ Len(last.seq) >= 1
    /\ OrphansBy(img, TRUE) # {}

(***************************************************************************)
(* Properties of ntfs_dir_open_meta.                                       *)
(***************************************************************************)
Listed == dlast.op = "dir_open" /\ dlast.a_addr \in {root_inum, DirB}

HasEntry(names, name) == \E p \in 1 .. Len(names) : names[p].name = name

\* the $INDEX_ALLOCATION of the directory has a record with a failing fixup or
\* bad list offsets, and nothing in the call is a hard error
SubStepCorrupt(im) ==
    /\ im.idx.root_ok
    /\ im.bad = NoInum
    /\ \E k \in 1 .. Len(im.idx.clusters) : im.idx.clusters[k] \in {"badfix", "badoffs"}
    /\ \A k \in 1 .. Len(im.idx.clusters) : im.idx.clusters[k] # "procerr"

\* C4: corruption in a sub-step of ntfs_dir_open_meta does not abort the call:
\* the sound records are still parsed, the orphan children and (for the root)
\* the orphan-directory entry are still appended, and CORRUPT is returned.
C4_CorruptionDoesNotAbort ==
    (Listed /\ SubStepCorrupt(nimg))
    => /\ dlast.ret = "COR"
       /\ \A k \in 1 .. Len(nimg.idx.clusters) :
              nimg.idx.clusters[k] = "ok" => HasEntry(dlast.names, NameOf("idx", k, 1))
       /\ \A i \in Files :
              (~MftRec(nimg, i).alloc /\ MftRec(nimg, i).name2 = <<dlast.a_addr>>)
              => HasEntry(dlast.names, NameOf("orphan", i, 1))
       /\ dlast.a_addr = root_inum
              => HasEntry(dlast.names, NameOf("orphandir", ntfs_last_inum, 0))

\* the MFT record of an address is in use (the orphan directory always is)
InUse(im, i) == i = ntfs_last_inum \/ MftRec(im, i).alloc

\* C6: every ALLOC entry of a listing, "." and ".." included, refers to an MFT
\* record in use; every UNALLOC entry comes from an index entry that is deleted
\* or in slack, or from the orphan map.
C6_AllocEntriesInUse ==
    dlast.op = "dir_open"
    => \A p \in 1 .. Len(dlast.names) :
          LET n == dlast.names[p]
          IN  /\ n.flags = "ALLOC" => InUse(nimg, n.meta_addr)
              /\ n.flags = "UNALLOC" => n.name.kind \in {"idx", "orphan"}

\* where an entry stands in the order of a listing: made-up entries, index
\* entries by list and position, orphan files by address, orphan directory
Rank(n) ==
    IF n.name.kind \in {"dot", "dotdot"} THEN <<0, 0, 0>>
    ELSE IF n.name.kind = "idx" THEN <<1, n.name.a, n.name.b>>
    ELSE IF n.name.kind = "orphan" THEN <<2, n.name.a, 0>>
    ELSE <<3, 0, 0>>

LexLess(r, t) ==
    \/ r[1] < t[1]
    \/ r[1] = t[1] /\ r[2] < t[2]
    \/ r[1] = t[1] /\ r[2] = t[2] /\ r[3] < t[3]

\* C7: a listing holds the index entries in disk order ($INDEX_ROOT, then the
\* records of $INDEX_ALLOCATION in buffer order), then the orphan files in
\* ascending MFT address, then, for the root, the orphan directory.
C7_ListingOrder ==
    Listed
    => /\ \A p, q \in 1 .. Len(dlast.names) :
              p < q => /\ ~LexLess(Rank(dlast.names[q]), Rank(dlast.names[p]))
                       /\ dlast.names[p].name.kind = "idx"
                              => LexLess(Rank(dlast.names[p]), Rank(dlast.names[q]))
       /\ (dlast.a_addr = root_inum /\ dlast.ret = "OK")
              => dlast.names[Len(dlast.names)].name.kind = "orphandir"

C7_Witness ==
    /\ Listed
    /\ dlast.a_addr = root_inum
    /\ dlast.ret = "OK"
    /\ HasEntry(dlast.names, NameOf("idx", 0, 1))
    /\ HasEntry(dlast.names, NameOf("idx", MaxClusters, 2))
    /\ \A i \in Files : HasEntry(dlast.names, NameOf("orphan", i, 1))
    /\ HasEntry(dlast.names, NameOf("orphandir", ntfs_last_inum, 0))

\* C8: whenever ntfs_dir_open_meta consults the orphan map, every file that is
\* not in use is in the bucket of the parent of each of its $FILE_NAMEs.
C8_OrphanMapComplete ==
    (dlast.op = "dir_open" /\ dlast.consulted)
    => \A i \in root_inum .. (ntfs_last_inum - 1) :
          (OpenMetaOk(nimg, i) /\ ~MftRec(nimg, i).alloc)
          => \A k \in 1 .. Len(MftRec(nimg, i).name2) :
                LET j == ntfs_orphan_map_get(ntfs.orphan_map, MftRec(nimg, i).name2[k])
                IN  j # 0 /\ i \in Range(ntfs.orphan_map[j].addrs)

(***************************************************************************)
(* Properties of ntfs_fix_idxrec.                                          *)
(***************************************************************************)
\* the offsets of the sector tails the update sequence covers
Tails(rec) == {i * SectorSize - 2 : i \in 1 .. (rec.upd_cnt - 1)}

\* upd_array[i] of the record as read from disk
UpdArray(rec, i) == tsk_getu16(rec.mem, rec.upd_off + 2 * i)

\* C9: on a record with an update array (upd_cnt >= 1) and
\* (upd_cnt - 1) * sector_size <= record_length, ntfs_fix_idxrec succeeds
\* exactly if every sector tail equals upd_array[0]; on success tail i holds
\* upd_array[i] and no other byte of the record has changed; otherwise it
\* reports corruption.
C9_FixupReplacesTails ==
    (/\ fres.op = "fix"
     /\ frec.upd_cnt >= 1
     /\ (frec.upd_cnt - 1) * SectorSize <= frec.len)
    => /\ fres.ret = 0
              <=> \A t \in Tails(frec) : tsk_getu16(frec.mem, t) = UpdArray(frec, 0)
       /\ fres.ret = 0
              => /\ \A i \in 1 .. (frec.upd_cnt - 1) :
                        tsk_getu16(fres.mem, i * SectorSize - 2) = UpdArray(frec, i)
                 /\ \A k \in 0 .. (frec.len - 1) :
                        (\A t \in Tails(frec) : k # t /\ k # t + 1)
                        => fres.mem[k] = frec.mem[k]
       /\ fres.ret \in {0, 1}

(***************************************************************************)
(* Properties of the loaders and of the iterators of the ext handle.       *)
(***************************************************************************)
\* the descriptor or the block bitmap of group g cannot be loaded from im
BitmapLoadFails(im, g) ==
    \/ ~ReadOk(im, groups_offset)
    \/ ~GdInRange(im.gd[g])
    \/ ~ReadOk(im, im.gd[g].bb)

\* the blocks of a walked range whose classification needs a load that fails
Unclassifiable(im, s, e) ==
    {b \in s .. e : b >= first_data_block /\ BitmapLoadFails(im, ext2_dtog_lcl(b))}

\* C11: when the descriptor or the block bitmap of the group of a walked block
\* cannot be loaded, block_walk returns an error and delivers neither that
\* block nor any later one.
C11_BlockWalkStopsAtFailedLoad ==
    (/\ last.op = "block_walk"
     /\ last.cb = AlwaysCont
     /\ last.a <= last.b
     /\ Unclassifiable(img, last.a, last.b) # {})
    => /\ last.ret = 1
       /\ \A k \in 1 .. Len(last.seq) :
              \A b \in Unclassifiable(img, last.a, last.b) : last.seq[k] < b

\* the bitmap block that loader op takes from the descriptor slot of e
BitmapBlock(op, e) == IF op = "bmap_load" THEN e.grp_buf.bb ELSE e.grp_buf.ib

\* the tag of the bitmap slot that loader op fills
BitmapTag(op, e) == IF op = "bmap_load" THEN e.bmap_grp_num ELSE e.imap_grp_num

\* C12: when the image read of a block bitmap or of an inode bitmap is short,
\* the loader fails and leaves the tag of the slot off the requested group.
C12_ShortBitmapReadFails ==
    (/\ last.op \in {"bmap_load", "imap_load"}
     /\ Len(last.seq) > 0
     /\ last.seq[Len(last.seq)] = BitmapBlock(last.op, ext2fs)
     /\ ~ReadOk(img, BitmapBlock(last.op, ext2fs)))
    => /\ last.ret = 1
       /\ BitmapTag(last.op, ext2fs) # last.a

\* the tag of the slot that loader op fills
SlotTag(op, e) ==
    CASE op = "group_load" -> e.grp_num
      [] op = "bmap_load" -> e.bmap_grp_num
      [] op = "imap_load" -> e.imap_grp_num
      [] op = "dinode_load" -> e.dino_inum

\* C15: a loader run for the tag its slot already carries (the slot was loaded
\* for that tag and for no other tag since) reads nothing from the image and
\* returns success.
C15_LoadOfCachedTagReadsNothing ==
    [][(/\ last'.op \in {"group_load", "bmap_load", "imap_load", "dinode_load"}
        /\ SlotTag(last'.op, ext2fs) = last'.a)
       => (last'.ret = 0 /\ last'.seq = <<>> /\ ext2fs' = ext2fs)]_vars

\* an inode bitmap is asked for again while the descriptor slot holds another group
C15_Witness ==
    /\ last.op = "imap_load"
    /\ last.ret = 0
    /\ last.seq = <<>>
    /\ ext2fs.imap_grp_num = last.a
    /\ ext2fs.grp_num \in Groups \ {last.a}

\* C13: whichever way ext2fs_inode_walk returns, the file shell of the walk
\* and its metadata container have been released.
C13_WalkReleasesFileShell ==
    last.op = "inode_walk" => last.closed

\* the orphan directory is due: the range ends at last_inum and the flags, once
\* made canonical, hold ALLOC and USED
OrphanDirDue(end_inum, flags) ==
    /\ end_inum = last_inum
    /\ "ORPHAN" \notin flags
    /\ flags \cap {"ALLOC", "UNALLOC"} = {} \/ "ALLOC" \in flags
    /\ flags \cap {"USED", "UNUSED"} = {} \/ "USED" \in flags

\* C16: with a callback that always goes on and no load error, inode_walk
\* delivers the orphan directory (last_inum) exactly when the range ends at
\* last_inum and the canonical flags hold ALLOC and USED; it is then delivered
\* once, after every real inode of the range.
C16_OrphanDirDelivery ==
    (/\ last.op = "inode_walk"
     /\ last.cb = AlwaysCont
     /\ CleanImage(img))
    => /\ last.ret = 0
       /\ (\E k \in 1 .. Len(last.seq) : last.seq[k] = last_inum)
              <=> OrphanDirDue(last.b, last.flags)
       /\ \A k \in 1 .. Len(last.seq) :
              last.seq[k] = last_inum => k = Len(last.seq)

\* a walk for ALLOC alone over the whole range ends with the orphan directory,
\* after at least one real inode
C16_Witness ==
    /\ last.op = "inode_walk"
    /\ last.cb = AlwaysCont
    /\ CleanImage(img)
    /\ last.flags = {"ALLOC"}
    /\ last.a = first_inum
    /\ last.b = last_inum
    /\ Len(last.seq) > 1
    /\ last.seq[Len(last.seq)] = last_inum

\* C17: on an image where every call succeeds, block_getflags(addr) returns
\* what it returns on a freshly opened handle, whatever calls came before.
C17_BlockFlagsIndependentOfHistory ==
    (/\ last.op = "block_getflags"
     /\ CleanImage(img))
    => last.flags = ext2fs_block_getflags(ext2fs_open, img, last.a).flags

(***************************************************************************)
(* Further properties of the NTFS handle.                                  *)
(***************************************************************************)
\* C14: over all the directory opens on one handle, the inode walk that
\* builds the orphan map is run at most once.
C14_OrphanWalkAtMostOnce ==
    ntfs.walks <= 1

\* C18: every call of ntfs_find_file returns.
C18_FindFileReturns ==
    (dlast.op = "find_file") ~> (dlast.op = "find_done")

\* C19: every byte the index-entry parser reads lies inside the buffer.
C19_ParserReadsInsideBuffer ==
    fres.op = "proc_idxentry" => fres.hi <= frec.len

\* C20: for the final index record the length given to the fixup is the
\* buffer length minus the record's offset in the buffer, and the length given
\* to the index parser is the buffer end minus the start of the entry list,
\* whatever the address of the buffer and the width of a pointer.
C20_FinalRecordLengths ==
    fres.op = "final_record" =>
        /\ fres.rec_len = frec.len - frec.off
        /\ fres.parsed =>
               fres.list_len = frec.len - (frec.off + ListOff + frec.begin_off)

\* how often the listing holds the name
Occurrences(names, name) == Cardinality({p \in 1 .. Len(names) : names[p].name = name})

\* C21: a listing of directory d that has got its orphan files holds every
\* $FILE_NAME that names d as parent, of every file not in use, exactly once,
\* also when a file has several such $FILE_NAMEs.
C21_OrphanNamesOnce ==
    (dlast.op = "dir_open" /\ dlast.ret = "OK" /\ dlast.consulted)
    => \A c \in root_inum .. (ntfs_last_inum - 1) :
          (OpenMetaOk(nimg, c) /\ ~MftRec(nimg, c).alloc)
          => \A k \in 1 .. Len(MftRec(nimg, c).name2) :
                MftRec(nimg, c).name2[k] = dlast.a_addr
                => Occurrences(dlast.names, NameOf("orphan", c, k)) = 1

\* C22: in ntfs_find_file, once the callback has answered STOP it is not called
\* again and the call returns ok; once it has answered ERROR it is not called
\* again and the call returns err; under the root and in the parent walk alike.
C22_StopAndErrorEndTheCall ==
    dlast.op \in {"find_file", "find_done", "stack_overflow"}
    => /\ ~dlast.again
       /\ (dlast.op = "find_done" /\ dlast.stopped) => dlast.ret = "OK"
       /\ (dlast.op = "find_done" /\ dlast.errored) => dlast.ret = "ERR"

\* C23: when a level of the path resolver cannot prepend its name (depth limit
\* reached or too little room left), the path start it uses is that of the
\* level before (didx[depth - 1]), depth stays as it was, and the index used
\* into didx lies within the array.
C23_LevelThatDoesNotFit ==
    (dlast.op = "find_path" /\ dlast.step \in {"called", "level"} /\ ~dlast.fit)
    => /\ dlast.begin = dlast.didx[dlast.depth_in - 1]
       /\ dlast.depth = dlast.depth_in
       /\ dlast.idx \in 0 .. (MAX_DEPTH - 1)

\* C24: the decoded target of a symbolic link has size bytes and equals the
\* stored target, taken from the pointer slots or from the direct blocks one
\* behind the other, with every control character replaced by '^'; nothing is
\* written outside the buffer.
C24_LinkTargetDecoded ==
    (fres.op = "dinode_copy" /\ fres.ret = 0)
    => /\ ~fres.over
       /\ \A p \in 1 .. frec.size :
             fres.link[p - 1] = IF p = frec.ctl THEN Caret ELSE p
       /\ fres.link[frec.size] = 0

\* the flags of a walk made canonical: ORPHAN forces UNALLOC and USED and
\* clears ALLOC and UNUSED; otherwise an empty pair becomes both of its flags
CanonicalFlags(flags) ==
    IF "ORPHAN" \in flags
    THEN (flags \cup {"UNALLOC", "USED"}) \ {"ALLOC", "UNUSED"}
    ELSE flags
         \cup (IF flags \cap {"ALLOC", "UNALLOC"} = {} THEN {"ALLOC", "UNALLOC"} ELSE {})
         \cup (IF flags \cap {"USED", "UNUSED"} = {} THEN {"USED", "UNUSED"} ELSE {})

\* inode i of the image is due in a walk for the canonical flags F
InodeDue(im, i, F) ==
    /\ (IF InodeAllocated(im, i) THEN "ALLOC" ELSE "UNALLOC") \in F
    /\ (IF InodeCtime(im, i) # 0 THEN "USED" ELSE "UNUSED") \in F
    /\ "ORPHAN" \in F => ~InodeNamed(im, i)

\* C25: with a callback that always goes on and no load error, inode_walk
\* delivers a real inode of its range exactly if its bitmap class and its
\* class by ctime are in the canonical flags and, for ORPHAN, no surviving
\* name points to it.
C25_WalkDeliversDueInodes ==
    (/\ last.op = "inode_walk"
     /\ last.cb = AlwaysCont
     /\ CleanImage(img))
    => \A i \in RealInodes :
          (i \in Range(last.seq))
              <=> (i \in last.a .. last.b /\ InodeDue(img, i, CanonicalFlags(last.flags)))

\* a walk of all the real inodes for ALLOC|UNUSED that delivers some of them
\* and leaves others out
C25_Witness ==
    /\ last.op = "inode_walk"
    /\ last.cb = AlwaysCont
    /\ CleanImage(img)
    /\ last.flags = {"ALLOC", "UNUSED"}
    /\ last.a = first_inum
    /\ last.b = last_inum - 1
    /\ \E i, j \in RealInodes : i \in Range(last.seq) /\ j \notin Range(last.seq)

\* the classification of block addr read off the image
ReferenceFlags(im, addr) ==
    IF addr = 0 THEN {"CONT", "ALLOC"}
    ELSE IF addr < first_data_block THEN {"META", "ALLOC"}
    ELSE LET g == CHOOSE h \in Groups :
                      addr \in ext2_cgbase_lcl(h) .. (ext2_cgbase_lcl(h) + BlocksPerGroup - 1)
             gd == im.gd[g]
             table == (InodesPerGroup * InodeSize + BlockSize - 1) \div BlockSize
             meta == \/ addr \in ext2_cgbase_lcl(g) .. (gd.bb - 1)
                     \/ addr = gd.bb
                     \/ addr = gd.ib
                     \/ addr \in gd.it .. (gd.it + table - 1)
         IN  {IF BlockAllocated(im, addr) THEN "ALLOC" ELSE "UNALLOC"}
             \cup {IF meta THEN "META" ELSE "CONT"}

\* C26: on a freshly opened handle whose loads succeed, block_get_flags(addr)
\* is the reference classification: CONT|ALLOC for block 0, META|ALLOC below
\* first_data_block, else ALLOC by the bit of the block in the bitmap of its
\* group, with META for the reserved span, the bitmaps and the inode table and
\* CONT for every other block.
C26_FreshBlockFlags ==
    [][(/\ ext2fs = ext2fs_open
        /\ CleanImage(img)
        /\ last'.op = "block_getflags")
       => last'.flags = ReferenceFlags(img, last'.a)]_vars

\* a block of the reserved span classified on a handle that holds nothing but
\* what this classification loaded
C26_Witness ==
    /\ last.op = "block_getflags"
    /\ CleanImage(img)
    /\ last.a = ext2_cgbase_lcl(groups_count - 1) + 1
    /\ "META" \in last.flags
    /\ ext2fs.bmap_grp_num = groups_count - 1
    /\ ext2fs.imap_grp_num = NoTag
    /\ ext2fs.dino_inum = NoTag

(***************************************************************************)
(* Properties of ntfs_proc_idxentry.                                       *)
(***************************************************************************)
Parsed == fres.op = "proc_idxentry" /\ fres.ret = "OK"

\* the header at offset p of the parsed buffer passes the four tests
ValidAt(p) ==
    LET e == EntryAt(frec, p)
    IN  /\ e.file_ref >= ntfs_first_inum /\ e.file_ref <= ntfs_last_inum
        /\ e.idxlen > e.strlen
        /\ e.idxlen % 4 = 0
        /\ e.idxlen <= frec.len

\* the entry at offset p has strlen = 0 or ends behind used_len
LateAt(p) ==
    EntryAt(frec, p).strlen = 0 \/ p + EntryAt(frec, p).idxlen > frec.used

AddedAt(p) == \E k \in 1 .. Len(fres.names) : fres.names[k].off = p

\* C27: the parser appends an entry only if, where it was read, the child
\* reference is within [first_inum, last_inum], idxlen > strlen, idxlen is a
\* multiple of 4 and idxlen <= buf_len; where one of these fails it appends
\* nothing and goes on exactly 4 bytes further.
C27_OnlyValidHeadersAppended ==
    Parsed
    => /\ \A k \in 1 .. Len(fres.names) : ValidAt(fres.names[k].off)
       /\ \A k \in 1 .. Len(fres.steps) :
             ~ValidAt(fres.steps[k].at)
             => /\ ~AddedAt(fres.steps[k].at)
                /\ fres.steps[k].to = fres.steps[k].at + 4
                /\ k < Len(fres.steps) => fres.steps[k + 1].at = fres.steps[k].at + 4

\* an entry whose idxlen is no multiple of 4 is passed over and the entry
\* behind it is appended
C27_Witness ==
    /\ Parsed
    /\ EntryAt(frec, 0).idxlen = 86
    /\ ~AddedAt(0)
    /\ AddedAt(84)

\* C28: an appended entry is flagged ALLOC exactly if the directory is not
\* deleted, strlen is not 0 and the entry ends within used_len, and UNALLOC
\* otherwise; an entry with strlen = 0 or ending behind used_len is appended
\* only if its name space is known, allocated size >= real size, nlen > 0, the
\* first byte of the name is not 0 and its times are plausible.
C28_AppendedEntryFlags ==
    Parsed
    => \A k \in 1 .. Len(fres.names) :
          LET n == fres.names[k]
              e == EntryAt(frec, n.off)
          IN  /\ n.flags \in {"ALLOC", "UNALLOC"}
              /\ n.flags = "ALLOC" <=> (~fres.a_is_del /\ ~LateAt(n.off))
              /\ LateAt(n.off)
                 => /\ e.nspace \in {"POSIX", "WIN32", "DOS", "WINDOS"}
                    /\ e.sizes_ok /\ e.nlen > 0 /\ e.name_ok /\ e.times_ok

\* a live directory with a live entry and, behind it, an entry with strlen = 0
C28_Witness ==
    /\ Parsed
    /\ ~fres.a_is_del
    /\ Len(fres.names) = 2
    /\ fres.names[1].flags = "ALLOC"
    /\ fres.names[2].flags = "UNALLOC"
    /\ EntryAt(frec, fres.names[2].off).strlen = 0

\* the length of a deleted entry as its name length gives it, rounded up to 4
Reconstructed(e) == ((IdxHdrLen + FnameLen + 2 * e.nlen + 3) \div 4) * 4

Entered(k) == fres.steps[k].kind \in {"dos", "nocopy", "added"}

\* C29: the parser ends on every buffer: every turn of the loop moves the
\* position at least 4 bytes forward (4 on a rejected candidate, idxlen when
\* strlen > 0, the reconstructed length rounded to 4 when strlen = 0), so
\* there are at most buf_len / 4 turns.
C29_EveryTurnAdvances ==
    Parsed
    => /\ Len(fres.steps) <= frec.len \div 4
       /\ \A k \in 1 .. Len(fres.steps) :
             LET st == fres.steps[k]
                 e == EntryAt(frec, st.at)
             IN  /\ st.to - st.at >= 4
                 /\ ~Entered(k) => st.to - st.at = 4
                 /\ (Entered(k) /\ e.strlen > 0) => st.to - st.at = e.idxlen
                 /\ (Entered(k) /\ e.strlen = 0) => st.to - st.at = Reconstructed(e)

\* C29 (amended): as C29, but behind an entry with strlen = 0 the position is
\* the first address that is a multiple of 4 at or behind the end of the
\* reconstructed entry (position + 16 + 66 + 2 * nlen); that is the
\* reconstructed length rounded to 4 if the entries start at an address that
\* is a multiple of 4.
C29_EveryTurnAdvancesToAlignedAddress ==
    Parsed
    => /\ Len(fres.steps) <= frec.len \div 4
       /\ \A k \in 1 .. Len(fres.steps) :
             LET st == fres.steps[k]
                 e == EntryAt(frec, st.at)
                 raw == IdxHdrLen + FnameLen + 2 * e.nlen
             IN  /\ st.to - st.at >= 4
                 /\ k < Len(fres.steps) => fres.steps[k + 1].at = st.to
                 /\ ~Entered(k) => st.to - st.at = 4
                 /\ (Entered(k) /\ e.strlen > 0) => st.to - st.at = e.idxlen
                 /\ (Entered(k) /\ e.strlen = 0)
                    => /\ (frec.align + st.to) % 4 = 0
                       /\ st.to - st.at \in raw .. (raw + 3)
                       /\ frec.align % 4 = 0 /\ st.at % 4 = 0
                              => st.to - st.at = Reconstructed(e)

\* entries that start at an address that is no multiple of 4, the first of
\* them with strlen = 0, and a candidate looked at behind it
C29_Witness ==
    /\ Parsed
    /\ frec.align = 2
    /\ Len(fres.steps) >= 2
    /\ Entered(1)
    /\ EntryAt(frec, 0).strlen = 0
    /\ fres.steps[1].to - fres.steps[1].at # Reconstructed(EntryAt(frec, 0))

(***************************************************************************)
(* The bytes ntfs_fix_idxrec touches.                                      *)
(***************************************************************************)
\* C30: for every record content and length, every byte ntfs_fix_idxrec
\* reads or writes, the update array at upd_off and the sector tails at
\* i * sector_size - 2 among them, lies inside the first record_length bytes
\* of the record.
C30_FixTouchesOnlyTheRecord ==
    fres.op = "fix" => \A k \in fres.touched : k >= 0 /\ k < frec.len

====
